---- MODULE Spec2Model ----
(***************************************************************************)
(* The submission service's upload pipeline: upload_file (routes/          *)
(* submission_routes.py), FileValidator (utils/file_validator.py) and      *)
(* FileProcessor (utils/file_processor.py), over the SQLAlchemy session    *)
(* (database/db_connection.py) and the tables of submission_models.py.     *)
(*                                                                         *)
(* One request is followed from its arrival to its response.  The          *)
(* database holds only what a commit has written; the session holds what   *)
(* has been added or changed since the last commit.  Every commit, the     *)
(* template query and the attribute refresh that builds the success        *)
(* response may fail (a storage fault); a failed commit discards what the  *)
(* session held, as SQLAlchemy's commit rolls the transaction back before  *)
(* it re-raises.                                                           *)
(***************************************************************************)
EXTENDS Integers, Sequences, FiniteSets, TLC

(***************************************************************************)
(* Bounds of the model.                                                    *)
(***************************************************************************)
\* files hold k * BATCH_SIZE + d rows, k <= MaxBatches, d in RowOffsets
MaxBatches == 2
\* rows with index below MaxBadIdx may raise while they are built or staged
MaxBadIdx == 2
\* storage faults (failed commits, queries, refreshes) in one behaviour
MaxDbFailures == 2
\* requests other than the upload that are answered in one behaviour
MaxCalls == 2

(***************************************************************************)
(* Program constants.                                                      *)
(***************************************************************************)
\* file_processor.py:85   if rows_processed % 100 == 0
BATCH_SIZE == 100
\* file_validator.py:63   if len(df) > 10000
MAX_ROWS == 10000

\* submission_config.py:58   ALLOWED_EXTENSIONS (default)
ALLOWED_EXTENSIONS == {"xlsx", "xls", "csv", "tsv"}

\* file_validator.py:22   self.required_headers
required_headers == {"submission_date", "department", "category"}

\* submission_models.py:31   class UploadStatus
UploadStatus == {"pending", "processing", "completed", "failed", "rejected"}

(***************************************************************************)
(* Values.                                                                 *)
(***************************************************************************)
\* Python's None, for a field that holds a record or a text
None == [none |-> TRUE]

\* the exceptions a storage fault raises, by the operation that met it
CommitError == [text |-> "commit failed"]
QueryError == [text |-> "query failed"]
RefreshError == [text |-> "refresh failed"]

\* the exception of reading an attribute of a row that is no longer stored
ObjectDeletedError == [text |-> "instance has been deleted"]

\* str.lower() on the extensions the model's file names carry
lower(s) ==
    CASE s = "CSV" -> "csv"
      [] s = "EXE" -> "exe"
      [] OTHER -> s

(***************************************************************************)
(* Inputs: the request's file part, the stored templates.                  *)
(***************************************************************************)
HeaderUniverse == {"submission_date", "department", "category", "notes"}

RowOffsets == {-1, 0, 1}

\* row counts of the files: none, one, around each batch boundary, and one
\* more than the validator's limit
RowCounts ==
    {0, 1, MAX_ROWS + 1}
        \cup {k * BATCH_SIZE + d : k \in 1..MaxBatches, d \in RowOffsets}

\* the cells of a submission_date column that are not missing: a text that
\* reads as a date and a text that does not
DateText == [text |-> "2025-01-05"]
OtherText == [text |-> "bad-date"]

\* the rows whose submission_date cell may hold the text that is no date:
\* the first row and the row that fills the first batch
TextRows == {0, BATCH_SIZE - 1}

\* the cell of a department or category column that is not missing
CellText == [text |-> "value"]

\* the rows whose cell is missing in a column that holds a missing cell:
\* the first row
MissingRows == {0}

\* what pandas makes of the stored file: no DataFrame at all, or a
\* DataFrame with its columns, the columns that hold a missing cell,
\* whether pd.to_datetime raises on the submission_date column, the rows
\* whose submission_date cell is a text that is no date, and len(df)
Unreadable == [readable |-> FALSE]

DataFrames ==
    {[readable |-> TRUE, columns |-> h, missing |-> m, date_raises |-> d,
      text_dates |-> t, rows |-> n, duplicated |-> {}] :
        h \in SUBSET HeaderUniverse, m \in SUBSET required_headers,
        d \in BOOLEAN, t \in {{}, TextRows}, n \in RowCounts}

WellFormed(frame) ==
    /\ frame.missing \subseteq frame.columns
    /\ frame.date_raises => "submission_date" \in frame.columns
    /\ frame.rows = 0 => (frame.missing = {} /\ ~frame.date_raises)
    /\ frame.columns = {} => frame.rows = 0
    /\ frame.text_dates # {} =>
            /\ "submission_date" \in frame.columns
            /\ "submission_date" \notin frame.missing
            /\ frame.rows >= BATCH_SIZE

Contents == {Unreadable} \cup {frame \in DataFrames : WellFormed(frame)}

\* file names by what rsplit('.', 1) reads of them: the text before the
\* last dot, whether there is a dot, the text after it.  They are "",
\* "data", "data.exe", "data.csv", "data.CSV" and ".csv"
Filenames ==
    {[stem |-> "", dot |-> FALSE, ext |-> ""],
     [stem |-> "data", dot |-> FALSE, ext |-> ""],
     [stem |-> "data", dot |-> TRUE, ext |-> "exe"],
     [stem |-> "data", dot |-> TRUE, ext |-> "csv"],
     [stem |-> "data", dot |-> TRUE, ext |-> "CSV"],
     [stem |-> "", dot |-> TRUE, ext |-> "csv"]}

\* the upload_templates table: one active and one inactive template
upload_templates ==
    [t \in {"T1", "T2"} |->
        IF t = "T1"
            THEN [headers |-> {"department", "notes"}, is_active |-> TRUE]
            ELSE [headers |-> {"department"}, is_active |-> FALSE]]

\* request.form.get('template_id'): absent, active, inactive, unknown
TemplateIds == {"", "T1", "T2", "T9"}

\* get_jwt_identity() of the upload request
Uploaders == {"u1"}

NoFilePart == [has_file |-> FALSE]

\* the file parts that are followed: every file name, template id and
\* content of at most one row together; the longer files under the name
\* data.csv with no template or the active one, and those with a text that
\* is no date with no template
Followed(f, c, t) ==
    (c.readable /\ c.rows > 1)
        => /\ f = [stem |-> "data", dot |-> TRUE, ext |-> "csv"]
           /\ t \in {"", "T1"}
           /\ c.text_dates # {} => t = ""

Requests ==
    {NoFilePart} \cup
    {r \in {[has_file |-> TRUE, filename |-> f, content |-> c,
             template_id |-> t, identity |-> u] :
                f \in Filenames, c \in Contents, t \in TemplateIds,
                u \in Uploaders} :
        Followed(r.filename, r.content, r.template_id)}

\* the caller of the upload request that is handled beside the first one
SecondUploader == "e1"

\* the file_id the new UploadedFile row of a request receives (uuid4): one
\* for each request
FileIdOf(r) == IF r.has_file /\ r.identity = SecondUploader THEN 2 ELSE 1

\* the file_id of an upload made before the request that is followed
EarlierFileId == 0

VARIABLES
    request,            \* the request being handled
    uploaded_files,     \* table uploaded_files: file_id -> row
    engagement_data,    \* table engagement_data: rows in insertion order
    audit_log,          \* table audit_log: sequence of rows
    upload_folder,      \* Config.UPLOAD_FOLDER: stored name -> content
    db_session,         \* the session's uncommitted unit of work
    pc,                 \* where upload_file stands
    validation_result,  \* upload_file's local
    processing_result,  \* upload_file's local
    idx,                \* process_file's loop index
    rows_processed,     \* process_file's local
    rows_failed,        \* process_file's local
    error_details,      \* process_file's local
    df,                 \* process_file's local: the DataFrame it read
    exc,                \* the exception upload_file's handler caught
    response,           \* the HTTP status returned, 0 before
    db_failures,        \* storage faults met so far
    calls,              \* validate_file / process_file, in call order
    users,              \* table users: user_id -> row
    call,               \* the other request being answered, None when none
    reply,              \* the response to the last such request
    served,             \* how many such requests were answered
    parked              \* the upload_file whose thread is not running:
                        \* its request, position, locals and session

vars ==
    <<request, uploaded_files, engagement_data, audit_log, upload_folder,
      db_session, pc, validation_result, processing_result, idx,
      rows_processed, rows_failed, error_details, df, exc, response,
      db_failures, calls, users, call, reply, served, parked>>

\* the file_id of the upload request that is running
NewFileId == FileIdOf(request)

\* what the running upload_file never touches
service == <<users, call, reply, served, parked>>

locals ==
    <<validation_result, processing_result, idx, rows_processed, rows_failed,
      error_details, df>>

(***************************************************************************)
(* The session.                                                            *)
(***************************************************************************)
EmptySession ==
    [new_files |-> <<>>, dirty |-> <<>>, new_rows |-> <<>>, new_logs |-> <<>>]

\* a row with the pending attribute changes written over it
Merge(row, dirty) ==
    [k \in DOMAIN row |-> IF k \in DOMAIN dirty THEN dirty[k] ELSE row[k]]

\* uploaded_files after the session's inserts and updates are flushed
FlushedFiles(files, s) ==
    LET all == [f \in DOMAIN files \cup DOMAIN s.new_files |->
                    IF f \in DOMAIN files THEN files[f] ELSE s.new_files[f]]
    IN  [f \in DOMAIN all |->
            IF f \in DOMAIN s.dirty THEN Merge(all[f], s.dirty[f]) ELSE all[f]]

\* db_session.add(uploaded_file)
AddFile(s, f, row) ==
    [s EXCEPT !.new_files = [g \in DOMAIN s.new_files \cup {f} |->
                                IF g = f THEN row ELSE s.new_files[g]]]

\* uploaded_file.<attr> = value, for the attributes of changes
SetAttrs(s, f, changes) ==
    [s EXCEPT !.dirty = [g \in DOMAIN s.dirty \cup {f} |->
        IF g = f
            THEN IF f \in DOMAIN s.dirty
                    THEN [k \in DOMAIN s.dirty[f] \cup DOMAIN changes |->
                            IF k \in DOMAIN changes THEN changes[k]
                            ELSE s.dirty[f][k]]
                    ELSE changes
            ELSE s.dirty[g]]]

\* the outcomes of a storage operation: a fault only within the budget
DbOutcomes == IF db_failures < MaxDbFailures THEN BOOLEAN ELSE {TRUE}

\* a flush that asks the storage for nothing about the rows it refers to
Flushable_unchecked(s) == TRUE

\* what the storage asks of a flush: the uploaded_files row an
\* engagement_data row refers to exists (the foreign key of
\* EngagementData.file_id), and so does the row an UPDATE is for
Flushable(s) ==
    LET held == DOMAIN uploaded_files \cup DOMAIN s.new_files
    IN  /\ \A k \in 1..Len(s.new_rows) : s.new_rows[k].file_id \in held
        /\ DOMAIN s.dirty \subseteq held

\* the outcomes of session.commit(): it raises when the flush is refused,
\* and on a storage fault
CommitOutcomes(s) == IF Flushable(s) THEN DbOutcomes ELSE {FALSE}

(***************************************************************************)
(* FileValidator (utils/file_validator.py).                                *)
(***************************************************************************)
\* _read_file: the DataFrame of the stored file, None when the extension is
\* not one pandas is asked to read or when reading raises
_read_file(folder, file_path, file_extension) ==
    IF file_extension \in {"xlsx", "xls", "csv", "tsv"}
        THEN IF file_path \in DOMAIN folder /\ folder[file_path].readable
                THEN folder[file_path]
                ELSE None
        ELSE None

\* DataFrame.empty: no row or no column
empty(frame) == frame.rows = 0 \/ frame.columns = {}

\* the validator's own headers demanded whatever template is passed
RequiredOf_minimum(template) == required_headers

\* the header set a file must hold: the template's when a template is
\* passed, the validator's own otherwise
RequiredOf(template) ==
    IF template # None THEN template.headers ELSE required_headers

\* _validate_headers
_validate_headers(frame, template) ==
    LET file_headers == frame.columns
        missing_headers == RequiredOf(template) \ file_headers
    IN  IF missing_headers # {}
            THEN [valid |-> FALSE,
                  error |-> [text |-> "Missing required headers",
                             names |-> missing_headers]]
            ELSE [valid |-> TRUE]

\* _validate_content looking at the submission_date column alone
_validate_content_dates_only(frame, template) ==
    LET errors ==
            {<<header, "missing values">> :
                header \in {h \in {"submission_date"} :
                                h \in frame.columns /\ h \in frame.missing}}
            \cup (IF "submission_date" \in frame.columns /\ frame.date_raises
                    THEN {<<"submission_date", "Invalid date format">>}
                    ELSE {})
    IN  IF errors # {}
            THEN [valid |-> FALSE,
                  error |-> [text |-> "Content validation failed",
                             errors |-> errors]]
            ELSE [valid |-> TRUE]

\* _validate_content: one error for each required header that is present
\* with a missing cell, one more when pd.to_datetime raises
_validate_content(frame, template) ==
    LET errors ==
            {<<header, "missing values">> :
                header \in {h \in required_headers :
                                h \in frame.columns /\ h \in frame.missing}}
            \cup (IF "submission_date" \in frame.columns /\ frame.date_raises
                    THEN {<<"submission_date", "Invalid date format">>}
                    ELSE {})
    IN  IF errors # {}
            THEN [valid |-> FALSE,
                  error |-> [text |-> "Content validation failed",
                             errors |-> errors]]
            ELSE [valid |-> TRUE]

\* _validate_content raises: df[header] of a header the file holds twice
\* is a DataFrame, its count of missing values a Series, and the test
\* 'missing_count > 0' of line 173 raises ValueError
ContentRaises(frame) ==
    \E header \in required_headers :
        header \in frame.columns /\ header \in frame.duplicated

ValueError == [text |-> "The truth value of a Series is ambiguous"]

\* the handler reporting the file as valid
Caught_as_valid(e) == [valid |-> TRUE]

\* lines 76-82: the handler of validate_file's try
Caught(e) ==
    [valid |-> FALSE, error |-> [text |-> "Validation error", cause |-> e]]

\* the row-count bound one row too high
TooManyRows_off_by_one(frame) == frame.rows > MAX_ROWS + 1

\* the row-count bound of validate_file
TooManyRows(frame) == frame.rows > MAX_ROWS

\* validate_file with the row-count bound checked before the headers
validate_file_count_first(folder, file_path, file_extension, template) ==
    LET frame == _read_file(folder, file_path, file_extension)
    IN  IF frame = None \/ empty(frame)
            THEN [valid |-> FALSE,
                  error |-> [text |-> "File is empty or could not be read"]]
        ELSE IF TooManyRows(frame)
            THEN [valid |-> FALSE,
                  error |-> [text |-> "File contains too many rows",
                             rows |-> frame.rows, max |-> MAX_ROWS]]
        ELSE IF ~_validate_headers(frame, template).valid
            THEN _validate_headers(frame, template)
        ELSE IF ~_validate_content(frame, template).valid
            THEN _validate_content(frame, template)
        ELSE [valid |-> TRUE, rows |-> frame.rows, columns |-> frame.columns]

\* validate_file
validate_file(folder, file_path, file_extension, template) ==
    LET frame == _read_file(folder, file_path, file_extension)
    IN  IF frame = None \/ empty(frame)
            THEN [valid |-> FALSE,
                  error |-> [text |-> "File is empty or could not be read"]]
        ELSE IF ~_validate_headers(frame, template).valid
            THEN _validate_headers(frame, template)
        ELSE IF ContentRaises(frame)
            THEN Caught(ValueError)
        ELSE IF ~_validate_content(frame, template).valid
            THEN _validate_content(frame, template)
        ELSE IF frame.rows = 0
            THEN [valid |-> FALSE,
                  error |-> [text |-> "File contains no data rows"]]
        ELSE IF TooManyRows(frame)
            THEN [valid |-> FALSE,
                  error |-> [text |-> "File contains too many rows",
                             rows |-> frame.rows, max |-> MAX_ROWS]]
        ELSE [valid |-> TRUE, rows |-> frame.rows, columns |-> frame.columns]

(***************************************************************************)
(* upload_file (routes/submission_routes.py).                              *)
(***************************************************************************)
\* allowed_file asking for a dot only, whatever follows it
allowed_file_any(filename) == filename.dot

\* allowed_file
allowed_file(filename) ==
    filename.dot /\ lower(filename.ext) \in ALLOWED_EXTENSIONS

\* werkzeug's secure_filename on these names: leading dots are stripped,
\* so ".csv" becomes "csv", a name without a dot
secure_filename(filename) ==
    IF filename.dot /\ filename.stem = ""
        THEN [stem |-> filename.ext, dot |-> FALSE, ext |-> ""]
        ELSE filename

\* lines 82-83: the extension upload_file keeps of the secured file name
file_extension == lower(secure_filename(request.filename).ext)

\* the UploadedFile row upload_file creates
NewUploadedFile ==
    [upload_status |-> "pending", error_message |-> None,
     rows_processed |-> 0, rows_failed |-> 0, processed_at |-> None,
     validation_notes |-> None, uploaded_by |-> request.identity,
     uploaded_at |-> NewFileId]

\* a commit expires the attributes of uploaded_file; reading one loads the
\* row again, which raises when the row has been deleted meanwhile
Gone(file_id) == file_id \notin DOMAIN uploaded_files

\* session.commit(): on success the session's work is written, on a fault
\* nothing is and the session is rolled back
Commit(s, ok) ==
    /\ db_session' = EmptySession
    /\ db_failures' =
            IF ok \/ ~Flushable(s) THEN db_failures ELSE db_failures + 1
    /\ uploaded_files' =
            IF ok THEN FlushedFiles(uploaded_files, s) ELSE uploaded_files
    /\ engagement_data' =
            IF ok THEN engagement_data \o s.new_rows ELSE engagement_data
    /\ audit_log' = IF ok THEN audit_log \o s.new_logs ELSE audit_log

\* return jsonify(...), code
Return(code) ==
    /\ pc' = "done"
    /\ response' = code

\* raise, to the handler of upload_file's inner try
Raise(e) ==
    /\ pc' = "handle_error"
    /\ exc' = e
    /\ response' = response

\* lines 64-106: the checks on the file part, file.save, the pending row;
\* rsplit('.', 1)[1] of a secured name without a dot raises IndexError,
\* which the handler of the outer try answers
AcceptUpload ==
    /\ pc = "start"
    /\ call = None
    /\ UNCHANGED service
    /\ UNCHANGED <<request, locals, exc, calls>>
    /\ IF \/ ~request.has_file
          \/ request.filename = [stem |-> "", dot |-> FALSE, ext |-> ""]
          \/ ~allowed_file(request.filename)
        THEN /\ Return(400)
             /\ UNCHANGED <<uploaded_files, engagement_data, audit_log,
                            upload_folder, db_session, db_failures>>
        ELSE IF ~secure_filename(request.filename).dot
        THEN /\ Return(500)
             /\ UNCHANGED <<uploaded_files, engagement_data, audit_log,
                            upload_folder, db_session, db_failures>>
        ELSE \E ok \in CommitOutcomes(AddFile(db_session, NewFileId,
                                               NewUploadedFile)) :
             /\ upload_folder' =
                    [p \in DOMAIN upload_folder \cup {NewFileId} |->
                        IF p = NewFileId THEN request.content
                        ELSE upload_folder[p]]
             /\ Commit(AddFile(db_session, NewFileId, NewUploadedFile), ok)
             /\ IF ok
                    THEN /\ pc' = "log_upload"
                         /\ response' = response
                    ELSE Return(500)

\* lines 108-122: the FILE_UPLOADED audit entry
LogUpload ==
    /\ pc = "log_upload"
    /\ UNCHANGED service
    /\ UNCHANGED <<request, locals, exc, calls, upload_folder>>
    /\ IF Gone(NewFileId)
        THEN /\ Return(500)
             /\ UNCHANGED <<uploaded_files, engagement_data, audit_log,
                            db_session, db_failures>>
        ELSE \E ok \in CommitOutcomes(db_session) :
             /\ Commit([db_session EXCEPT !.new_logs =
                            Append(@, [action |-> "FILE_UPLOADED",
                                       record_id |-> NewFileId,
                                       user_id |-> request.identity])], ok)
             /\ IF ok
                    THEN /\ pc' = "set_processing"
                         /\ response' = response
                    ELSE Return(500)

\* lines 125-127
SetProcessing ==
    /\ pc = "set_processing"
    /\ UNCHANGED service
    /\ UNCHANGED <<request, locals, calls, upload_folder>>
    /\ \E ok \in CommitOutcomes(SetAttrs(db_session, NewFileId,
                                       [upload_status |-> "processing"])) :
        /\ Commit(SetAttrs(db_session, NewFileId,
                           [upload_status |-> "processing"]), ok)
        /\ IF ok
            THEN /\ pc' = "validate"
                 /\ UNCHANGED <<exc, response>>
            ELSE Raise(CommitError)

\* the template of that id whether active or not
ActiveTemplate_any(template_id) ==
    IF template_id \in DOMAIN upload_templates
        THEN upload_templates[template_id]
        ELSE None

\* lines 134-137: the active template of that id, None when there is none
ActiveTemplate(template_id) ==
    IF template_id \in DOMAIN upload_templates
            /\ upload_templates[template_id].is_active
        THEN upload_templates[template_id]
        ELSE None

\* lines 129-144: the template lookup and validate_file
ValidateFile ==
    /\ pc = "validate"
    /\ UNCHANGED service
    /\ UNCHANGED <<request, uploaded_files, engagement_data, audit_log,
                   upload_folder, db_session, processing_result, idx,
                   rows_processed, rows_failed, error_details, df>>
    /\ \E ok \in (IF request.template_id # "" THEN DbOutcomes ELSE {TRUE}) :
        IF ok
            THEN /\ validation_result' =
                        validate_file(upload_folder, NewFileId, file_extension,
                            IF request.template_id # ""
                                THEN ActiveTemplate(request.template_id)
                                ELSE None)
                 /\ calls' = Append(calls, "validate_file")
                 /\ pc' = "validated"
                 /\ UNCHANGED <<exc, response, db_failures>>
            ELSE /\ Raise(QueryError)
                 /\ db_failures' = db_failures + 1
                 /\ UNCHANGED <<validation_result, calls>>

\* the check of line 146 made on the presence of a result, not on its flag
ValidationFailed_presence(result) == result = None

\* line 146: if not validation_result['valid']
ValidationFailed(result) == ~result.valid

\* lines 147-148 storing the response's summary, not the validator's text
RejectedAttrs_summary(result) ==
    [upload_status |-> "rejected",
     error_message |-> [text |-> "File validation failed"]]

\* lines 147-148: what a failed validation writes on the upload
RejectedAttrs(result) ==
    [upload_status |-> "rejected", error_message |-> result.error]

\* lines 146-154
RejectUpload ==
    /\ pc = "validated"
    /\ UNCHANGED service
    /\ ValidationFailed(validation_result)
    /\ UNCHANGED <<request, locals, calls, upload_folder>>
    /\ \E ok \in CommitOutcomes(SetAttrs(db_session, NewFileId,
                                       RejectedAttrs(validation_result))) :
        /\ Commit(SetAttrs(db_session, NewFileId,
                           RejectedAttrs(validation_result)), ok)
        /\ IF ok
            THEN /\ Return(400)
                 /\ exc' = exc
            ELSE Raise(CommitError)

(***************************************************************************)
(* FileProcessor.process_file (utils/file_processor.py).                   *)
(***************************************************************************)
\* FileProcessor._read_file
processor_read_file(folder, file_path, extension) ==
    IF extension \in {"xlsx", "xls", "csv", "tsv"}
        THEN IF file_path \in DOMAIN folder /\ folder[file_path].readable
                THEN folder[file_path]
                ELSE None
        ELSE None

\* line 74 without the header line: rows numbered from 1
row_number_from_one(i) == i + 1

\* line 74: row_number=idx + 2
row_number(i) == i + 2

\* line 85 with batches of twice the size
BatchDue_double(n) == n % (2 * BATCH_SIZE) = 0

\* line 85: if rows_processed % 100 == 0
BatchDue(n) == n % BATCH_SIZE = 0

\* row.get('submission_date') of the row at index i: None when the frame
\* has no such column or the cell is missing
DateCell(frame, i) ==
    IF "submission_date" \notin frame.columns THEN None
    ELSE IF "submission_date" \in frame.missing /\ i \in MissingRows
        THEN None
    ELSE IF i \in frame.text_dates THEN OtherText
    ELSE DateText

\* lines 54-55: str(row.get(column, '')).strip() if pd.notna(row.get(column))
\* else None, for the department and the category of the row at index i
CoreField(frame, column, i) ==
    IF column \notin frame.columns THEN None
    ELSE IF column \in frame.missing /\ i \in MissingRows THEN None
    ELSE CellText

\* pd.to_datetime(date_value, errors='coerce'): NaT, here None, for a text
\* that is no date
to_datetime(date_value) ==
    IF date_value = DateText THEN [year |-> 2025, month |-> 1, day |-> 5]
    ELSE None

\* _parse_date: None for a missing value and for what does not parse
_parse_date(date_value) ==
    IF date_value = None THEN None
    ELSE IF to_datetime(date_value) # None THEN to_datetime(date_value)
    ELSE None

\* lines 58-69: data_fields, of which the submission_date entry is kept;
\* a text cell is stored as str(value)
data_fields(frame, i) ==
    IF "submission_date" \in frame.columns
        THEN [submission_date |-> DateCell(frame, i)]
        ELSE <<>>

\* lines 72-79: the EngagementData row of the row at index i
EngagementRecord(file_id, i, frame) ==
    [file_id |-> file_id, row_number |-> row_number(i),
     submission_date |-> _parse_date(DateCell(frame, i)),
     department |-> CoreField(frame, "department", i),
     category |-> CoreField(frame, "category", i),
     data_fields |-> data_fields(frame, i)]

\* lines 90-92: what the handler of a row's exception adds to error_details
RowError(i, e) == [row |-> row_number(i), cause |-> e]

\* whether building or staging the row at index i may raise
RowOutcomes(i) == IF i < MaxBadIdx THEN {"staged", "raises"} ELSE {"staged"}

\* lines 103-108: the dict process_file returns
ProcessingResult(processed, failed, frame, errors) ==
    [rows_processed |-> processed, rows_failed |-> failed,
     total_rows |-> frame.rows,
     notes |-> IF errors # <<>>
                THEN [text |-> "errors encountered", count |-> Len(errors)]
                ELSE [text |-> "All rows processed successfully"]]

\* lines 156-162 of upload_file and 38-47 of process_file: the call, the
\* file read again, the counters
ProcessFileBegin ==
    /\ pc = "validated"
    /\ UNCHANGED service
    /\ ~ValidationFailed(validation_result)
    /\ calls' = Append(calls, "process_file")
    /\ UNCHANGED <<request, uploaded_files, engagement_data, audit_log,
                   upload_folder, validation_result, processing_result,
                   db_failures>>
    /\ LET read == processor_read_file(upload_folder, NewFileId,
                                       file_extension)
       IN  IF Gone(NewFileId)
            THEN /\ Raise(ObjectDeletedError)
                 /\ UNCHANGED <<db_session, idx, rows_processed, rows_failed,
                                error_details, df>>
           ELSE IF read = None
            THEN /\ db_session' = EmptySession
                 /\ Raise([text |-> "Failed to read file"])
                 /\ UNCHANGED <<idx, rows_processed, rows_failed,
                                error_details, df>>
            ELSE /\ df' = read
                 /\ idx' = 0
                 /\ rows_processed' = 0
                 /\ rows_failed' = 0
                 /\ error_details' = <<>>
                 /\ pc' = IF read.rows > 0 THEN "process_rows"
                          ELSE "final_commit"
                 /\ UNCHANGED <<db_session, exc, response>>

\* lines 50-96: one turn of the loop over the rows
ProcessRow ==
    /\ pc = "process_rows"
    /\ UNCHANGED service
    /\ idx < df.rows
    /\ idx' = idx + 1
    /\ pc' = IF idx + 1 < df.rows THEN "process_rows" ELSE "final_commit"
    /\ UNCHANGED <<request, upload_folder, validation_result,
                   processing_result, df, exc, response, calls>>
    /\ \E outcome \in RowOutcomes(idx) :
        IF outcome = "raises"
            THEN /\ rows_failed' = rows_failed + 1
                 /\ error_details' =
                        Append(error_details,
                               RowError(idx, [text |-> "row error"]))
                 /\ UNCHANGED <<rows_processed, uploaded_files,
                                engagement_data, audit_log, db_session,
                                db_failures>>
            ELSE LET staged ==
                        [db_session EXCEPT !.new_rows =
                            Append(@, EngagementRecord(NewFileId, idx, df))]
                 IN  /\ rows_processed' = rows_processed + 1
                     /\ IF BatchDue(rows_processed + 1)
                            THEN \E ok \in CommitOutcomes(staged) :
                                /\ Commit(staged, ok)
                                /\ rows_failed' =
                                    IF ok THEN rows_failed
                                    ELSE rows_failed + 1
                                /\ error_details' =
                                    IF ok THEN error_details
                                    ELSE Append(error_details,
                                                RowError(idx, CommitError))
                            ELSE /\ db_session' = staged
                                 /\ UNCHANGED <<rows_failed, error_details,
                                                uploaded_files,
                                                engagement_data, audit_log,
                                                db_failures>>

\* lines 98-113: the final commit, the result or the rollback and re-raise
FinalCommit ==
    /\ pc = "final_commit"
    /\ UNCHANGED service
    /\ UNCHANGED <<request, validation_result, idx, rows_processed,
                   rows_failed, error_details, df, calls, upload_folder>>
    /\ \E ok \in CommitOutcomes(db_session) :
        /\ Commit(db_session, ok)
        /\ IF ok
            THEN /\ processing_result' =
                        ProcessingResult(rows_processed, rows_failed, df,
                                         error_details)
                 /\ pc' = "update_record"
                 /\ UNCHANGED <<exc, response>>
            ELSE /\ Raise(CommitError)
                 /\ UNCHANGED processing_result

\* lines 165-169: what a returned process_file writes on the upload
CompletedAttrs(result) ==
    [upload_status |-> "completed", processed_at |-> [at |-> "utcnow"],
     rows_processed |-> result.rows_processed,
     rows_failed |-> result.rows_failed,
     validation_notes |-> result.notes]

\* lines 164-170
UpdateRecord ==
    /\ pc = "update_record"
    /\ UNCHANGED service
    /\ UNCHANGED <<request, locals, calls, upload_folder>>
    /\ \E ok \in CommitOutcomes(SetAttrs(db_session, NewFileId,
                                       CompletedAttrs(processing_result))) :
        /\ Commit(SetAttrs(db_session, NewFileId,
                           CompletedAttrs(processing_result)), ok)
        /\ IF ok
            THEN /\ pc' = "respond"
                 /\ UNCHANGED <<exc, response>>
            ELSE Raise(CommitError)

\* lines 172-178: the success response; to_dict reads attributes the commit
\* expired, which the session loads again
Respond ==
    /\ pc = "respond"
    /\ UNCHANGED service
    /\ UNCHANGED <<request, locals, calls, upload_folder, uploaded_files,
                   engagement_data, audit_log, db_session>>
    /\ IF Gone(NewFileId)
        THEN /\ Raise(ObjectDeletedError)
             /\ UNCHANGED db_failures
        ELSE \E ok \in DbOutcomes :
             IF ok
                THEN /\ Return(200)
                     /\ UNCHANGED <<exc, db_failures>>
                ELSE /\ Raise(RefreshError)
                     /\ db_failures' = db_failures + 1

\* lines 182-183 storing the response's summary, not str(e)
FailedAttrs_summary(e) ==
    [upload_status |-> "failed",
     error_message |-> [text |-> "File processing failed"]]

\* lines 182-183: what the handler of the inner try writes on the upload
FailedAttrs(e) == [upload_status |-> "failed", error_message |-> e]

\* lines 180-195: the handler of the inner try; when its own commit raises,
\* the handler of the outer try rolls back
HandleError ==
    /\ pc = "handle_error"
    /\ UNCHANGED service
    /\ UNCHANGED <<request, locals, calls, upload_folder, exc>>
    /\ \E ok \in CommitOutcomes(SetAttrs(db_session, NewFileId,
                                       FailedAttrs(exc))) :
        /\ Commit(SetAttrs(db_session, NewFileId, FailedAttrs(exc)), ok)
        /\ Return(500)

(***************************************************************************)
(* The users and their tokens (database/submission_models.py,              *)
(* routes/auth_routes.py).                                                 *)
(***************************************************************************)
\* submission_models.py:22   class UserRole
UserRole == {"executive", "staff", "public", "admin"}

\* flask_bcrypt: a hash is checked against the password it was made of
generate_password_hash(password) == [hash_of |-> password]

check_password_hash(hash, password) == hash.hash_of = password

\* the users table before the requests that are followed: an admin, an
\* executive, a staff member and a public user whose account is inactive
InitialUsers ==
    [u \in {"a1", "e1", "u1", "u2"} |->
        [username |-> u,
         password_hash |-> generate_password_hash("secret"),
         role |-> CASE u = "a1" -> "admin"
                    [] u = "e1" -> "executive"
                    [] u = "u1" -> "staff"
                    [] OTHER -> "public",
         is_active |-> u # "u2",
         last_login |-> None]]

\* the claims of an access token: those login issues for a user, and the
\* same without the role claim
Tokens ==
    {[identity |-> u, role |-> users[u].role] : u \in DOMAIN users}
        \cup {[identity |-> u] : u \in DOMAIN users}

(***************************************************************************)
(* role_required (utils/auth_decorators.py).                               *)
(***************************************************************************)
\* line 28 reading a token without the role claim as an admin's
user_role_trusting(claims) ==
    IF "role" \in DOMAIN claims THEN claims.role ELSE "admin"

\* line 28: claims.get('role', 'public')
user_role(claims) ==
    IF "role" \in DOMAIN claims THEN claims.role ELSE "public"

\* the guard that lets every caller through
Authorized_anyone(allowed_roles, claims) == TRUE

\* line 30: if user_role not in allowed_roles
Authorized(allowed_roles, claims) == user_role(claims) \in allowed_roles

\* lines 31-35
PermissionDenied(allowed_roles, claims) ==
    [code |-> 403, error |-> "Insufficient permissions",
     required_roles |-> allowed_roles, your_role |-> user_role(claims)]

(***************************************************************************)
(* The requests on the uploads (routes/submission_routes.py):              *)
(* delete_upload, get_uploads, get_upload_details.                         *)
(***************************************************************************)
\* the file ids a request names: the two uploads and one that is unknown
FileIds == {EarlierFileId, NewFileId, NewFileId + 1}

\* request.args.get('status'): absent, a status, no status
StatusArgs == {"", "completed", "done"}

\* request.args.get('limit', 50) and request.args.get('offset', 0)
Limits == {1, 50}

Offsets == {0, 1}

FilesCalls ==
    {[op |-> o, jwt |-> t, file_id |-> f] :
        o \in {"delete_upload", "get_upload_details"}, t \in Tokens,
        f \in FileIds}
    \cup {[op |-> "get_uploads", jwt |-> t, status |-> s, limit |-> l,
           offset |-> o] :
            t \in Tokens, s \in StatusArgs, l \in Limits, o \in Offsets}

\* a request on the uploads arrives once upload_file has returned
ReceiveFilesCall ==
    /\ pc = "done"
    /\ call = None
    /\ served < MaxCalls
    /\ call' \in FilesCalls
    /\ reply' = None
    /\ UNCHANGED <<request, uploaded_files, engagement_data, audit_log,
                   upload_folder, db_session, pc, locals, exc, response,
                   parked,
                   db_failures, calls, users, served>>

\* return jsonify(...), code of these requests
Answer(r) ==
    /\ reply' = r
    /\ call' = None
    /\ served' = served + 1

\* a function without one key
Without(fn, k) == [x \in DOMAIN fn \ {k} |-> fn[x]]

\* line 357: @role_required(['admin', 'executive'])
DeleteRoles == {"admin", "executive"}

\* the delete that leaves the rows of the file where they are
Cascade_none(rows, file_id) == rows

\* submission_models.py:101 and 130: the rows of a deleted file go with it
Cascade(rows, file_id) == SelectSeq(rows, LAMBDA r : r.file_id # file_id)

\* the entry of a deletion written over the earlier entries of the upload
DeletionLogged_purging(log, file_id, user_id) ==
    Append(SelectSeq(log, LAMBDA e : "record_id" \in DOMAIN e
                                        => e.record_id # file_id),
           [action |-> "FILE_DELETED", record_id |-> file_id,
            user_id |-> user_id])

\* lines 382-391 and 395: the audit log with the entry of a deletion
DeletionLogged(log, file_id, user_id) ==
    Append(log, [action |-> "FILE_DELETED", record_id |-> file_id,
                 user_id |-> user_id])

\* lines 368-406, under the role guard of line 357: os.remove comes before
\* the commit, which writes the audit entry and the delete together
DeleteUpload ==
    /\ call # None
    /\ call.op = "delete_upload"
    /\ UNCHANGED <<request, db_session, pc, locals, exc, response, parked,
                   calls,
                   users>>
    /\ IF ~Authorized(DeleteRoles, call.jwt)
        THEN /\ Answer(PermissionDenied(DeleteRoles, call.jwt))
             /\ UNCHANGED <<uploaded_files, engagement_data, audit_log,
                            upload_folder, db_failures>>
        ELSE IF call.file_id \notin DOMAIN uploaded_files
        THEN /\ Answer([code |-> 404, error |-> "Upload not found"])
             /\ UNCHANGED <<uploaded_files, engagement_data, audit_log,
                            upload_folder, db_failures>>
        ELSE \E ok \in DbOutcomes :
             /\ upload_folder' = Without(upload_folder, call.file_id)
             /\ db_failures' = IF ok THEN db_failures ELSE db_failures + 1
             /\ uploaded_files' =
                    IF ok THEN Without(uploaded_files, call.file_id)
                    ELSE uploaded_files
             /\ engagement_data' =
                    IF ok THEN Cascade(engagement_data, call.file_id)
                    ELSE engagement_data
             /\ audit_log' =
                    IF ok
                        THEN DeletionLogged(audit_log, call.file_id,
                                            call.jwt.identity)
                        ELSE audit_log
             /\ Answer(IF ok
                        THEN [code |-> 200,
                              message |-> "File deleted successfully"]
                        ELSE [code |-> 500,
                              error |-> "Failed to delete upload"])

\* lines 221 and 275: the roles that read every upload
ReadRoles == {"admin", "executive"}

\* UploadedFile.to_dict
to_dict(file_id) ==
    [file_id |-> file_id,
     upload_status |-> uploaded_files[file_id].upload_status,
     uploaded_by |-> uploaded_files[file_id].uploaded_by,
     rows_processed |-> uploaded_files[file_id].rows_processed,
     rows_failed |-> uploaded_files[file_id].rows_failed]

\* the query of get_uploads that filters no upload by its uploader
OwnedOrAll_unfiltered(claims) == DOMAIN uploaded_files

\* lines 218-222: every upload for the reading roles, the caller's own
\* uploads for everyone else
OwnedOrAll(claims) ==
    IF user_role(claims) \notin ReadRoles
        THEN {f \in DOMAIN uploaded_files :
                uploaded_files[f].uploaded_by = claims.identity}
        ELSE DOMAIN uploaded_files

\* lines 225-229: the filter on the status
WithStatus(files, status) ==
    IF status # ""
        THEN {f \in files : uploaded_files[f].upload_status = status}
        ELSE files

\* line 238: order_by(UploadedFile.uploaded_at.desc())
RECURSIVE Descending(_)
Descending(files) ==
    IF files = {} THEN <<>>
    ELSE LET latest == CHOOSE f \in files : \A g \in files :
                            uploaded_files[g].uploaded_at
                                <= uploaded_files[f].uploaded_at
         IN  <<latest>> \o Descending(files \ {latest})

\* line 238: limit(limit).offset(offset)
Page(rows, limit, offset) ==
    SubSeq(rows, offset + 1,
           IF offset + limit < Len(rows) THEN offset + limit ELSE Len(rows))

\* lines 212-249
GetUploads ==
    /\ call # None
    /\ call.op = "get_uploads"
    /\ UNCHANGED <<request, uploaded_files, engagement_data, audit_log,
                   upload_folder, db_session, pc, locals, exc, response,
                   parked,
                   calls, users>>
    /\ IF call.status # "" /\ call.status \notin UploadStatus
        THEN /\ Answer([code |-> 400, error |-> "Invalid status"])
             /\ UNCHANGED db_failures
        ELSE \E ok \in DbOutcomes :
             /\ db_failures' = IF ok THEN db_failures ELSE db_failures + 1
             /\ LET query == WithStatus(OwnedOrAll(call.jwt), call.status)
                    uploads == Page(Descending(query), call.limit,
                                    call.offset)
                IN  Answer(IF ok
                            THEN [code |-> 200,
                                  total |-> Cardinality(query),
                                  limit |-> call.limit,
                                  offset |-> call.offset,
                                  uploads |-> [k \in 1..Len(uploads) |->
                                                to_dict(uploads[k])]]
                            ELSE [code |-> 500,
                                  error |-> "Failed to retrieve uploads"])

\* line 275: the check that refuses an upload of someone else
MayRead(claims, file_id) ==
    \/ user_role(claims) \in ReadRoles
    \/ uploaded_files[file_id].uploaded_by = claims.identity

\* lines 264-290
GetUploadDetails ==
    /\ call # None
    /\ call.op = "get_upload_details"
    /\ UNCHANGED <<request, uploaded_files, engagement_data, audit_log,
                   upload_folder, db_session, pc, locals, exc, response,
                   parked,
                   calls, users>>
    /\ \E ok \in DbOutcomes :
        /\ db_failures' = IF ok THEN db_failures ELSE db_failures + 1
        /\ Answer(IF ~ok
                    THEN [code |-> 500,
                          error |-> "Failed to retrieve upload details"]
                  ELSE IF call.file_id \notin DOMAIN uploaded_files
                    THEN [code |-> 404, error |-> "Upload not found"]
                  ELSE IF ~MayRead(call.jwt, call.file_id)
                    THEN [code |-> 403, error |-> "Unauthorized access"]
                  ELSE [code |-> 200,
                        upload |-> to_dict(call.file_id),
                        data_records |->
                            Len(SelectSeq(engagement_data,
                                LAMBDA r : r.file_id = call.file_id))])

(***************************************************************************)
(* The requests on the users (routes/auth_routes.py): login,               *)
(* register_user, change_password.                                         *)
(***************************************************************************)
\* the user_id and username of the user register_user may create
NewUserId == "u3"

\* data['username'] of login: absent, three users, nobody's
LoginNames == {"", "a1", "u1", "u2", "nobody"}

\* the passwords requests carry: absent, the users' first one, a wrong
\* one, a new one
Passwords == {"", "secret", "wrong", "fresh"}

\* data['role'] of register_user: a role and a text that is no role
RoleArgs == {"staff", "root"}

AuthCalls ==
    {[op |-> "login", username |-> n, password |-> p] :
        n \in LoginNames, p \in Passwords}
    \cup {[op |-> "register_user", jwt |-> t, username |-> n, role |-> r,
           complete |-> c] :
            t \in Tokens, n \in {NewUserId, "u1"}, r \in RoleArgs,
            c \in BOOLEAN}
    \cup {[op |-> "change_password", jwt |-> t, old_password |-> o,
           new_password |-> n] :
            t \in Tokens, o \in {"", "secret", "wrong"},
            n \in {"", "fresh"}}

\* a request on the users arrives
ReceiveAuthCall ==
    /\ call = None
    /\ served < MaxCalls
    /\ call' \in AuthCalls
    /\ reply' = None
    /\ UNCHANGED <<request, uploaded_files, engagement_data, audit_log,
                   upload_folder, db_session, pc, locals, exc, response,
                   parked,
                   db_failures, calls, users, served>>

\* how the commits of a handler with two commits end: a storage fault only
\* within the budget
TwoCommits ==
    IF db_failures < MaxDbFailures
        THEN {"both", "first_raises", "second_raises"}
        ELSE {"both"}

\* lines 122-126: whether the query finds a user of that name, and the
\* user it finds
Known(name) == \E u \in DOMAIN users : users[u].username = name

UserNamed(name) == CHOOSE u \in DOMAIN users : users[u].username = name

\* lines 115-176: the commit of last_login comes before the commit of the
\* USER_LOGIN entry; a login that is refused writes to the logger only
Login ==
    /\ call # None
    /\ call.op = "login"
    /\ UNCHANGED <<request, uploaded_files, engagement_data, upload_folder,
                   db_session, pc, locals, exc, response, parked, calls>>
    /\ LET user == UserNamed(call.username)
       IN  IF call.username = "" \/ call.password = ""
            THEN /\ Answer([code |-> 400,
                            error |-> "Missing username or password"])
                 /\ UNCHANGED <<users, audit_log, db_failures>>
           ELSE IF ~Known(call.username)
            THEN /\ Answer([code |-> 401, error |-> "Invalid credentials"])
                 /\ UNCHANGED <<users, audit_log, db_failures>>
           ELSE IF ~users[user].is_active
            THEN /\ Answer([code |-> 403, error |-> "Account is inactive"])
                 /\ UNCHANGED <<users, audit_log, db_failures>>
           ELSE IF ~check_password_hash(users[user].password_hash,
                                        call.password)
            THEN /\ Answer([code |-> 401, error |-> "Invalid credentials"])
                 /\ UNCHANGED <<users, audit_log, db_failures>>
           ELSE \E commits \in TwoCommits :
                /\ db_failures' = IF commits = "both" THEN db_failures
                                  ELSE db_failures + 1
                /\ users' =
                    IF commits # "first_raises"
                        THEN [users EXCEPT ![user].last_login =
                                                [at |-> "utcnow"]]
                        ELSE users
                /\ audit_log' =
                    IF commits = "both"
                        THEN Append(audit_log,
                                [action |-> "USER_LOGIN", user_id |-> user])
                        ELSE audit_log
                /\ Answer(IF commits = "both"
                            THEN [code |-> 200,
                                  message |-> "Login successful",
                                  access_token |->
                                    [identity |-> user,
                                     role |-> users[user].role]]
                            ELSE [code |-> 500, error |-> "Login failed"])

\* line 29: @role_required(['admin'])
RegisterRoles == {"admin"}

\* lines 44-100, under the role guard of line 29: the commit of the user
\* comes before the commit of the USER_CREATED entry; a role that is no
\* UserRole makes the first commit raise
RegisterUser ==
    /\ call # None
    /\ call.op = "register_user"
    /\ UNCHANGED <<request, uploaded_files, engagement_data, upload_folder,
                   db_session, pc, locals, exc, response, parked, calls>>
    /\ IF ~Authorized(RegisterRoles, call.jwt)
        THEN /\ Answer(PermissionDenied(RegisterRoles, call.jwt))
             /\ UNCHANGED <<users, audit_log, db_failures>>
       ELSE IF ~call.complete
        THEN /\ Answer([code |-> 400, error |-> "Missing required fields"])
             /\ UNCHANGED <<users, audit_log, db_failures>>
       ELSE IF Known(call.username)
        THEN /\ Answer([code |-> 409,
                        error |-> "Username or email already exists"])
             /\ UNCHANGED <<users, audit_log, db_failures>>
       ELSE IF call.role \notin UserRole
        THEN /\ Answer([code |-> 500, error |-> "Failed to register user"])
             /\ UNCHANGED <<users, audit_log, db_failures>>
       ELSE \E commits \in TwoCommits :
            /\ db_failures' = IF commits = "both" THEN db_failures
                              ELSE db_failures + 1
            /\ users' =
                IF commits # "first_raises"
                    THEN [u \in DOMAIN users \cup {call.username} |->
                            IF u \in DOMAIN users THEN users[u]
                            ELSE [username |-> call.username,
                                  password_hash |->
                                    generate_password_hash("secret"),
                                  role |-> call.role, is_active |-> TRUE,
                                  last_login |-> None]]
                    ELSE users
            /\ audit_log' =
                IF commits = "both"
                    THEN Append(audit_log,
                            [action |-> "USER_CREATED",
                             record_id |-> call.username,
                             user_id |-> call.jwt.identity])
                    ELSE audit_log
            /\ Answer(IF commits = "both"
                        THEN [code |-> 201,
                              message |-> "User registered successfully"]
                        ELSE [code |-> 500,
                              error |-> "Failed to register user"])

\* lines 254-295: one commit writes the new hash and the PASSWORD_CHANGED
\* entry together
ChangePassword ==
    /\ call # None
    /\ call.op = "change_password"
    /\ UNCHANGED <<request, uploaded_files, engagement_data, upload_folder,
                   db_session, pc, locals, exc, response, parked, calls>>
    /\ LET user == call.jwt.identity
       IN  IF call.old_password = "" \/ call.new_password = ""
            THEN /\ Answer([code |-> 400,
                            error |-> "Missing old or new password"])
                 /\ UNCHANGED <<users, audit_log, db_failures>>
           ELSE IF user \notin DOMAIN users
            THEN /\ Answer([code |-> 404, error |-> "User not found"])
                 /\ UNCHANGED <<users, audit_log, db_failures>>
           ELSE IF ~check_password_hash(users[user].password_hash,
                                        call.old_password)
            THEN /\ Answer([code |-> 401, error |-> "Invalid old password"])
                 /\ UNCHANGED <<users, audit_log, db_failures>>
           ELSE \E ok \in DbOutcomes :
                /\ db_failures' = IF ok THEN db_failures ELSE db_failures + 1
                /\ users' =
                    IF ok
                        THEN [users EXCEPT ![user].password_hash =
                                generate_password_hash(call.new_password)]
                        ELSE users
                /\ audit_log' =
                    IF ok
                        THEN Append(audit_log,
                                [action |-> "PASSWORD_CHANGED",
                                 record_id |-> user, user_id |-> user])
                        ELSE audit_log
                /\ Answer(IF ok
                            THEN [code |-> 200,
                                  message |->
                                    "Password changed successfully"]
                            ELSE [code |-> 500,
                                  error |-> "Failed to change password"])

(***************************************************************************)
(* The specification.                                                      *)
(***************************************************************************)
\* nothing is stored and the request has not been looked at
Unstarted ==
    /\ uploaded_files = <<>>
    /\ engagement_data = <<>>
    /\ audit_log = <<>>
    /\ upload_folder = <<>>
    /\ db_session = EmptySession
    /\ pc = "start"
    /\ validation_result = None
    /\ processing_result = None
    /\ idx = 0
    /\ rows_processed = 0
    /\ rows_failed = 0
    /\ error_details = <<>>
    /\ df = None
    /\ exc = None
    /\ response = 0
    /\ db_failures = 0
    /\ calls = <<>>
    /\ users = InitialUsers
    /\ call = None
    /\ reply = None
    /\ served = 0

Init ==
    /\ request \in Requests
    /\ parked = None
    /\ Unstarted

Next ==
    \/ AcceptUpload
    \/ LogUpload
    \/ SetProcessing
    \/ ValidateFile
    \/ RejectUpload
    \/ ProcessFileBegin
    \/ ProcessRow
    \/ FinalCommit
    \/ UpdateRecord
    \/ Respond
    \/ HandleError

Spec == Init /\ [][Next]_vars

(***************************************************************************)
(* The uploads and the requests on them: one upload_file request made      *)
(* after an earlier upload of another user, then delete_upload,            *)
(* get_uploads and get_upload_details requests, answered one at a time.    *)
(***************************************************************************)
\* the DataFrame of a file with the validator's headers and n rows of dates
PlainFrame(n) ==
    [readable |-> TRUE, columns |-> required_headers, missing |-> {},
     date_raises |-> FALSE, text_dates |-> {}, rows |-> n,
     duplicated |-> {}]

\* the upload requests followed here: a file name that is refused, and
\* under an accepted name a file that cannot be read, a file that lacks a
\* header, a file of one row and a file of one batch
FilesRequests ==
    {r \in Requests :
        /\ r.has_file
        /\ r.template_id = ""
        /\ \/ /\ r.filename = [stem |-> "data", dot |-> TRUE, ext |-> "exe"]
              /\ r.content = PlainFrame(1)
           \/ /\ r.filename = [stem |-> "data", dot |-> TRUE, ext |-> "csv"]
              /\ r.content \in
                    {Unreadable, PlainFrame(1), PlainFrame(BATCH_SIZE),
                     [PlainFrame(1) EXCEPT !.columns = {"department"}]}}

\* the row of the earlier upload: one of user u2, completed with one row
EarlierUploadedFile ==
    [upload_status |-> "completed", error_message |-> None,
     rows_processed |-> 1, rows_failed |-> 0,
     processed_at |-> [at |-> "utcnow"],
     validation_notes |-> [text |-> "All rows processed successfully"],
     uploaded_by |-> "u2", uploaded_at |-> EarlierFileId]

FilesInit ==
    /\ request \in FilesRequests
    /\ uploaded_files = [f \in {EarlierFileId} |-> EarlierUploadedFile]
    /\ engagement_data =
            <<EngagementRecord(EarlierFileId, 0, PlainFrame(1))>>
    /\ audit_log = <<[action |-> "FILE_UPLOADED",
                      record_id |-> EarlierFileId, user_id |-> "u2"]>>
    /\ upload_folder = [f \in {EarlierFileId} |-> PlainFrame(1)]
    /\ db_session = EmptySession
    /\ pc = "start"
    /\ validation_result = None
    /\ processing_result = None
    /\ idx = 0
    /\ rows_processed = 0
    /\ rows_failed = 0
    /\ error_details = <<>>
    /\ df = None
    /\ exc = None
    /\ response = 0
    /\ db_failures = 0
    /\ calls = <<>>
    /\ users = InitialUsers
    /\ call = None
    /\ reply = None
    /\ served = 0
    /\ parked = None

FilesNext ==
    \/ Next
    \/ ReceiveFilesCall
    \/ DeleteUpload
    \/ GetUploads
    \/ GetUploadDetails

FilesSpec == FilesInit /\ [][FilesNext]_vars

(***************************************************************************)
(* The users: login, register_user and change_password requests, answered  *)
(* one at a time, with no upload made.                                     *)
(***************************************************************************)
AuthInit ==
    /\ Init
    /\ request = NoFilePart

AuthNext ==
    \/ ReceiveAuthCall
    \/ Login
    \/ RegisterUser
    \/ ChangePassword

AuthSpec == AuthInit /\ [][AuthNext]_vars

(***************************************************************************)
(* An upload and its deletion: delete_upload requests for the upload that  *)
(* upload_file is handling arrive and are answered between any two steps   *)
(* of upload_file, each in a session of its own.                           *)
(***************************************************************************)
\* the upload requests followed here: a file of one row, and a file of one
\* batch and one row more
RaceRequests ==
    {[has_file |-> TRUE,
      filename |-> [stem |-> "data", dot |-> TRUE, ext |-> "csv"],
      content |-> PlainFrame(n), template_id |-> "", identity |-> "u1"] :
        n \in {1, BATCH_SIZE + 1}}

\* the delete_upload requests followed here: those of the admin and of the
\* uploader, a staff member, for the upload being handled
RaceCalls ==
    {c \in FilesCalls :
        /\ c.op = "delete_upload"
        /\ c.file_id = NewFileId
        /\ c.jwt \in {[identity |-> "a1", role |-> "admin"],
                      [identity |-> "u1", role |-> "staff"]}}

\* a delete_upload request arrives, wherever upload_file stands
ReceiveDelete ==
    /\ call = None
    /\ served < MaxCalls
    /\ call' \in RaceCalls
    /\ reply' = None
    /\ UNCHANGED <<request, uploaded_files, engagement_data, audit_log,
                   upload_folder, db_session, pc, locals, exc, response,
                   parked,
                   db_failures, calls, users, served>>

RaceInit ==
    /\ Init
    /\ request \in RaceRequests

RaceNext ==
    \/ Next
    \/ ReceiveDelete
    \/ DeleteUpload

RaceSpec == RaceInit /\ [][RaceNext]_vars

(***************************************************************************)
(* Two uploads at once: app.run(threaded=True) gives every request a       *)
(* thread, and the threads' steps interleave in any order.  One thread is  *)
(* running; the other one's request, position, locals and session are      *)
(* parked until the scheduler switches to it.                              *)
(***************************************************************************)
\* db_session = scoped_session(session_factory): a thread that asks for the
\* session gets its own, whatever session the thread before it was using
ThreadSession_shared(own, current) == current

ThreadSession(own, current) == own

\* what a thread holds of a request it is handling
Running ==
    [request |-> request, pc |-> pc,
     validation_result |-> validation_result,
     processing_result |-> processing_result, idx |-> idx,
     rows_processed |-> rows_processed, rows_failed |-> rows_failed,
     error_details |-> error_details, df |-> df, exc |-> exc,
     response |-> response, calls |-> calls, db_session |-> db_session]

\* a thread that has not begun on its request r
Fresh(r) ==
    [request |-> r, pc |-> "start", validation_result |-> None,
     processing_result |-> None, idx |-> 0, rows_processed |-> 0,
     rows_failed |-> 0, error_details |-> <<>>, df |-> None, exc |-> None,
     response |-> 0, calls |-> <<>>, db_session |-> EmptySession]

\* the scheduler stops the running thread and resumes the parked one
Switch ==
    /\ parked # None
    /\ parked.pc # "done"
    /\ request' = parked.request
    /\ pc' = parked.pc
    /\ validation_result' = parked.validation_result
    /\ processing_result' = parked.processing_result
    /\ idx' = parked.idx
    /\ rows_processed' = parked.rows_processed
    /\ rows_failed' = parked.rows_failed
    /\ error_details' = parked.error_details
    /\ df' = parked.df
    /\ exc' = parked.exc
    /\ response' = parked.response
    /\ calls' = parked.calls
    /\ db_session' = ThreadSession(parked.db_session, db_session)
    /\ parked' = Running
    /\ UNCHANGED <<uploaded_files, engagement_data, audit_log, upload_folder,
                   db_failures, users, call, reply, served>>

\* a file that fails validation: it has no department column
HeaderlessFrame ==
    [readable |-> TRUE, columns |-> {"submission_date", "category"},
     missing |-> {}, date_raises |-> FALSE, text_dates |-> {}, rows |-> 1,
     duplicated |-> {}]

\* the two upload requests: the first caller's file is rejected, or has
\* two rows, or one batch and one row more; the second caller's has one
\* row
ConcurrentRequests(u) ==
    {[has_file |-> TRUE,
      filename |-> [stem |-> "data", dot |-> TRUE, ext |-> "csv"],
      content |-> c, template_id |-> "", identity |-> u] :
        c \in IF u = SecondUploader
                THEN {PlainFrame(1)}
                ELSE {HeaderlessFrame, PlainFrame(2),
                      PlainFrame(BATCH_SIZE + 1)}}

ConcurrentInit ==
    /\ request \in ConcurrentRequests("u1")
    /\ parked \in {Fresh(r) : r \in ConcurrentRequests(SecondUploader)}
    /\ Unstarted

ConcurrentNext ==
    \/ Next
    \/ Switch

ConcurrentSpec == ConcurrentInit /\ [][ConcurrentNext]_vars

(***************************************************************************)
(* Faults inside validation: one upload of a file that validate_file       *)
(* cannot read, or that makes one of its steps raise, beside a file it     *)
(* finds valid, with and without a template id.                            *)
(***************************************************************************)
\* a file whose header row names department twice ("department" and
\* "department "): _read_file strips the names and the frame holds two
\* columns of one name
TwiceNamedFrame ==
    [readable |-> TRUE, columns |-> required_headers, missing |-> {},
     date_raises |-> FALSE, text_dates |-> {}, rows |-> 1,
     duplicated |-> {"department"}]

\* a file whose submission_date column makes pd.to_datetime raise
RaisingDateFrame ==
    [readable |-> TRUE, columns |-> required_headers, missing |-> {},
     date_raises |-> TRUE, text_dates |-> {}, rows |-> 1,
     duplicated |-> {}]

ValidationRequests ==
    {[has_file |-> TRUE,
      filename |-> [stem |-> "data", dot |-> TRUE, ext |-> "csv"],
      content |-> c, template_id |-> t, identity |-> "u1"] :
        c \in {Unreadable, TwiceNamedFrame, RaisingDateFrame, PlainFrame(1)},
        t \in {"", "T2"}}

ValidationInit ==
    /\ request \in ValidationRequests
    /\ parked = None
    /\ Unstarted

ValidationSpec == ValidationInit /\ [][Next]_vars

(***************************************************************************)
(* The service: one upload_file request made after an earlier upload of    *)
(* another user, then requests on the uploads and on the users, answered   *)
(* one at a time.                                                          *)
(***************************************************************************)
\* the upload requests followed here: a file name that is refused, and
\* under an accepted name a file that cannot be read and a file of one row
ServiceRequests ==
    {r \in FilesRequests :
        r.content \in {Unreadable, PlainFrame(1)}}

\* the callers followed here: the admin and the uploader, a staff member
ServiceCallers == {"a1", "u1"}

\* the requests followed here: those of the two callers on the two
\* uploads, a list of the uploads, a login with the right and the wrong
\* password, the creation of one user, a password change
ServiceCalls ==
    {c \in FilesCalls \cup AuthCalls :
        CASE c.op \in {"delete_upload", "get_upload_details"} ->
                /\ c.jwt.identity \in ServiceCallers
                /\ c.file_id \in {EarlierFileId, NewFileId}
          [] c.op = "get_uploads" ->
                /\ c.jwt.identity \in ServiceCallers
                /\ c.status = ""
                /\ c.limit = 50
                /\ c.offset = 0
          [] c.op = "login" ->
                /\ c.username \in {"u1", "u2"}
                /\ c.password \in {"secret", "wrong"}
          [] c.op = "register_user" ->
                /\ c.jwt.identity \in ServiceCallers
                /\ c.username = NewUserId
                /\ c.role = "staff"
                /\ c.complete
          [] c.op = "change_password" ->
                /\ c.jwt.identity \in ServiceCallers
                /\ c.old_password \in {"secret", "wrong"}
                /\ c.new_password = "fresh"}

\* a request arrives once upload_file has returned
ReceiveCall ==
    /\ pc = "done"
    /\ call = None
    /\ served < MaxCalls
    /\ call' \in ServiceCalls
    /\ reply' = None
    /\ UNCHANGED <<request, uploaded_files, engagement_data, audit_log,
                   upload_folder, db_session, pc, locals, exc, response,
                   parked,
                   db_failures, calls, users, served>>

ServiceInit ==
    /\ FilesInit
    /\ request \in ServiceRequests

ServiceNext ==
    \/ Next
    \/ ReceiveCall
    \/ DeleteUpload
    \/ GetUploads
    \/ GetUploadDetails
    \/ Login
    \/ RegisterUser
    \/ ChangePassword

ServiceSpec == ServiceInit /\ [][ServiceNext]_vars

(***************************************************************************)
(* What the properties read of a state.                                    *)
(***************************************************************************)
\* the upload's row is committed
Accepted == NewFileId \in DOMAIN uploaded_files

\* the persisted status of the upload, "absent" before its row is committed
StatusIn(files) ==
    IF NewFileId \in DOMAIN files THEN files[NewFileId].upload_status
    ELSE "absent"

PersistedStatus == StatusIn(uploaded_files)

\* the persisted EngagementData rows of the upload
RecordsOf(file_id) ==
    SelectSeq(engagement_data, LAMBDA r : r.file_id = file_id)

RowNumbers(rows) == {rows[k].row_number : k \in 1..Len(rows)}

Terminal == {"completed", "failed", "rejected"}

\* the moves of the lifecycle pending -> processing -> terminal
Lifecycle ==
    {<<"absent", "pending">>, <<"pending", "processing">>}
        \cup {<<"processing", t>> : t \in Terminal}

Called(name) == \E k \in 1..Len(calls) : calls[k] = name

Validated == validation_result # None

(***************************************************************************)
(* C1.  The persisted status of the upload only ever moves along           *)
(* pending -> processing -> one of completed, failed, rejected: every      *)
(* change of the persisted status is one move of the lifecycle, so no      *)
(* status is skipped or entered again and a terminal status never changes. *)
(* The handler breaks this: a fault in the commit of "processing" makes    *)
(* it write "failed" over "pending", and a fault while the success         *)
(* response is built makes it write "failed" over "completed".             *)
(***************************************************************************)
C1_StatusLifecycle ==
    [][StatusIn(uploaded_files') # PersistedStatus
        => <<PersistedStatus, StatusIn(uploaded_files')>> \in Lifecycle]_vars

(***************************************************************************)
(* C2.  Once the request has returned, an accepted upload has persisted    *)
(* status completed, failed or rejected.  The handler breaks this: when    *)
(* the commit of the audit entry raises, the outer handler rolls back and  *)
(* returns with the upload still pending; when the commit of "failed"      *)
(* raises too, the upload stays pending or processing.                     *)
(***************************************************************************)
C2_FinishedIsTerminal ==
    (pc = "done" /\ Accepted) => PersistedStatus \in Terminal

(***************************************************************************)
(* C3.  As claimed: whenever validate_file returned an invalid result,     *)
(* the finished upload is rejected, its error_message is the validator's   *)
(* error, process_file was not called and no EngagementData row of the     *)
(* file is persisted.  A fault in the commit of "rejected" refutes the     *)
(* first two parts.                                                        *)
(***************************************************************************)
C3_InvalidEndsRejected ==
    (Validated /\ ~validation_result.valid /\ pc = "done")
        => /\ PersistedStatus = "rejected"
           /\ uploaded_files[NewFileId].error_message = validation_result.error
           /\ ~Called("process_file")
           /\ RecordsOf(NewFileId) = <<>>

(***************************************************************************)
(* C3, amended.  Whenever validate_file returned an invalid result,        *)
(* process_file is never called and no EngagementData row of the file is   *)
(* staged or persisted; the upload ends rejected with the validator's      *)
(* error as its error_message when the commit of that status succeeds,     *)
(* and otherwise ends failed with the commit's exception as its            *)
(* error_message, or is left in processing when that commit fails too.     *)
(***************************************************************************)
C3_InvalidNeverProcessed ==
    (Validated /\ ~validation_result.valid)
        => /\ ~Called("process_file")
           /\ RecordsOf(NewFileId) = <<>>
           /\ db_session.new_rows = <<>>
           /\ pc \in {"validated", "handle_error", "done"}
           /\ pc = "done" =>
                IF exc = None
                    THEN /\ PersistedStatus = "rejected"
                         /\ uploaded_files[NewFileId].error_message
                                = validation_result.error
                    ELSE /\ exc = CommitError
                         /\ PersistedStatus \in {"failed", "processing"}
                         /\ PersistedStatus = "failed" =>
                                uploaded_files[NewFileId].error_message = exc

C3_Witness ==
    /\ Validated
    /\ ~validation_result.valid
    /\ pc = "done"
    /\ PersistedStatus = "rejected"
    /\ uploaded_files[NewFileId].error_message
            = [text |-> "Missing required headers", names |-> {"category"}]

(***************************************************************************)
(* C4.  process_file is called only after validate_file has returned a     *)
(* valid result for the upload: the calls of one request are               *)
(* validate_file first and process_file, if at all, after it has           *)
(* returned, a request is inside process_file only with a valid result in  *)
(* hand, and after an invalid result process_file is never called.         *)
(***************************************************************************)
C4_ProcessOnlyAfterValid ==
    /\ calls \in {<<>>, <<"validate_file">>,
                  <<"validate_file", "process_file">>}
    /\ Called("validate_file") <=> Validated
    /\ (Called("process_file")
            \/ pc \in {"process_rows", "final_commit", "update_record",
                       "respond"})
        => (Validated /\ validation_result.valid /\ Called("process_file"))
    /\ (Validated /\ ~validation_result.valid) => ~Called("process_file")

C4_Witness ==
    /\ pc = "process_rows"
    /\ idx > 0
    /\ Called("process_file")
    /\ validation_result.valid

(***************************************************************************)
(* C5.  Whenever process_file has returned, its result satisfies           *)
(* rows_processed + rows_failed = total_rows.  The loop breaks this: a     *)
(* row whose batch commit raises has been counted in rows_processed        *)
(* before the commit and is counted in rows_failed by the handler.         *)
(***************************************************************************)
C5_RowAccounting ==
    processing_result # None
        => processing_result.rows_processed + processing_result.rows_failed
                = processing_result.total_rows

(***************************************************************************)
(* C6.  A row that raises while it is built or staged adds one to          *)
(* rows_failed and one diagnostic of its source line (index + 2), leaves   *)
(* rows_processed as it was, and the loop goes on to the next row; and     *)
(* when process_file has returned, the finished upload is completed.       *)
(* The handler breaks the last part: a fault in the commit of "completed"  *)
(* or in the building of the response makes it write "failed".             *)
(***************************************************************************)
RowRaised ==
    /\ pc = "process_rows"
    /\ Len(error_details') = Len(error_details) + 1
    /\ error_details'[Len(error_details')].cause # CommitError

C6_RowFailureIsolated ==
    [][/\ RowRaised =>
            /\ rows_failed' = rows_failed + 1
            /\ error_details'[Len(error_details')].row = idx + 2
            /\ rows_processed' = rows_processed
            /\ idx' = idx + 1
            /\ pc' = IF idx' < df.rows THEN "process_rows" ELSE "final_commit"
       /\ (pc' = "done" /\ processing_result' # None)
            => StatusIn(uploaded_files') = "completed"]_vars

(***************************************************************************)
(* C7.  When process_file has returned from a run in which no row and no   *)
(* commit failed, the EngagementData rows persisted for the file are as    *)
(* many as rows_processed and as total_rows, and their row numbers are     *)
(* 2, 3, ..., total_rows + 1 in this order, none twice and none missing.   *)
(***************************************************************************)
C7_AllRowsPersisted ==
    (processing_result # None /\ processing_result.rows_failed = 0)
        => LET rows == RecordsOf(NewFileId)
           IN  /\ Len(rows) = processing_result.rows_processed
               /\ Len(rows) = processing_result.total_rows
               /\ RowNumbers(rows) = 2..(processing_result.total_rows + 1)
               /\ \A k \in 1..Len(rows) : rows[k].row_number = k + 1

C7_Witness ==
    /\ processing_result # None
    /\ processing_result.rows_failed = 0
    /\ processing_result.total_rows = MaxBatches * BATCH_SIZE + 1
    /\ Len(RecordsOf(NewFileId)) = MaxBatches * BATCH_SIZE + 1

(***************************************************************************)
(* C8.  No step removes or changes a persisted EngagementData row; a step  *)
(* in which a commit raises persists nothing and discards exactly what     *)
(* the session had staged; and the step that marks the upload failed       *)
(* stores the exception the handler caught as its error_message and        *)
(* leaves the persisted rows as they are.                                  *)
(***************************************************************************)
C8_CommittedBatchesKept ==
    [][/\ Len(engagement_data) <= Len(engagement_data')
       /\ SubSeq(engagement_data', 1, Len(engagement_data)) = engagement_data
       /\ db_failures' > db_failures =>
            /\ engagement_data' = engagement_data
            /\ db_session'.new_rows = <<>>
       /\ (StatusIn(uploaded_files') = "failed" /\ PersistedStatus # "failed")
            => /\ exc # None
               /\ uploaded_files'[NewFileId].error_message = exc
               /\ engagement_data' = engagement_data]_vars

C8_Witness ==
    /\ pc = "done"
    /\ PersistedStatus = "failed"
    /\ uploaded_files[NewFileId].error_message = CommitError
    /\ processing_result = None
    /\ Len(RecordsOf(NewFileId)) = BATCH_SIZE
    /\ rows_processed = BATCH_SIZE + 1

(***************************************************************************)
(* C9.  _validate_headers passes exactly when the file's headers include   *)
(* the required set, which is the template's headers when a template is    *)
(* passed and submission_date, department, category otherwise; a failure   *)
(* names the missing headers; and an upload whose readable, non-empty      *)
(* file lacks a required header is reported the missing headers and gets   *)
(* no EngagementData row.                                                  *)
(***************************************************************************)
MinimumHeaders == {"submission_date", "department", "category"}

\* the template upload_file passes to validate_file
TemplateUsed ==
    IF request.template_id \in DOMAIN upload_templates
            /\ upload_templates[request.template_id].is_active
        THEN upload_templates[request.template_id]
        ELSE None

C9_HeaderValidation ==
    (request.has_file /\ request.content.readable)
        => LET columns == request.content.columns
               needed(t) == IF t = None THEN MinimumHeaders ELSE t.headers
           IN  /\ \A t \in {None} \cup
                        {upload_templates[id] : id \in DOMAIN upload_templates} :
                    LET result == _validate_headers(request.content, t)
                    IN  /\ result.valid <=> needed(t) \subseteq columns
                        /\ ~result.valid =>
                            result.error =
                                [text |-> "Missing required headers",
                                 names |-> needed(t) \ columns]
               /\ (Validated /\ ~empty(request.content)
                        /\ ~(needed(TemplateUsed) \subseteq columns))
                    => /\ ~validation_result.valid
                       /\ validation_result.error =
                            [text |-> "Missing required headers",
                             names |-> needed(TemplateUsed) \ columns]
                       /\ ~Called("process_file")
                       /\ RecordsOf(NewFileId) = <<>>
                       /\ db_session.new_rows = <<>>

C9_Witness ==
    /\ pc = "done"
    /\ request.has_file
    /\ request.content.readable
    /\ request.template_id = "T1"
    /\ request.content.columns = MinimumHeaders
    /\ PersistedStatus = "rejected"
    /\ validation_result.error =
            [text |-> "Missing required headers", names |-> {"notes"}]
    /\ RecordsOf(NewFileId) = <<>>

(***************************************************************************)
(* C10.  As claimed: every file of more than 10,000 rows fails validation  *)
(* with the failure of the row-count bound and gets no EngagementData      *)
(* row.  A file of 10,001 rows that lacks a required header refutes the    *)
(* first part: it is reported the missing headers.                         *)
(***************************************************************************)
C10_OverLimitIsTooManyRows ==
    (Validated /\ request.content.readable /\ request.content.rows > 10000)
        => /\ ~validation_result.valid
           /\ validation_result.error.text = "File contains too many rows"
           /\ RecordsOf(NewFileId) = <<>>

(***************************************************************************)
(* C10, amended.  Every file of more than 10,000 rows fails validation     *)
(* and gets no EngagementData row; the failure is that of the row-count    *)
(* bound, with the file's row count and the limit 10,000, when the         *)
(* header and content checks pass, and that of the earlier failing check   *)
(* otherwise.                                                              *)
(***************************************************************************)
C10_OverLimitRejected ==
    (request.has_file /\ request.content.readable
            /\ request.content.rows > 10000)
        => /\ RecordsOf(NewFileId) = <<>>
           /\ db_session.new_rows = <<>>
           /\ ~Called("process_file")
           /\ Validated =>
                /\ ~validation_result.valid
                /\ IF /\ _validate_headers(request.content, TemplateUsed).valid
                      /\ _validate_content(request.content, TemplateUsed).valid
                    THEN validation_result.error =
                            [text |-> "File contains too many rows",
                             rows |-> request.content.rows, max |-> 10000]
                    ELSE validation_result.error.text \in
                            {"Missing required headers",
                             "Content validation failed"}

C10_Witness ==
    /\ pc = "done"
    /\ request.has_file
    /\ request.content.readable
    /\ request.content.rows = 10001
    /\ PersistedStatus = "rejected"
    /\ uploaded_files[NewFileId].error_message =
            [text |-> "File contains too many rows", rows |-> 10001,
             max |-> 10000]
    /\ RecordsOf(NewFileId) = <<>>

(***************************************************************************)
(* C11.  A row whose submission_date cell holds a text that is no date,    *)
(* and that raises nothing while it is built, yields exactly one           *)
(* EngagementData row of its source line, staged or persisted, with        *)
(* submission_date None and the cell kept in data_fields, and adds one to  *)
(* rows_processed and nothing to rows_failed.  The loop breaks this for    *)
(* the row that fills a batch: when the batch commit raises, the row's     *)
(* record is rolled back and the row is counted in rows_failed as well.    *)
(***************************************************************************)
UnparseableRow ==
    /\ pc = "process_rows"
    /\ DateCell(df, idx) = OtherText
    /\ ~RowRaised

C11_UnparseableDateStillCounted ==
    [][UnparseableRow =>
        /\ rows_processed' = rows_processed + 1
        /\ rows_failed' = rows_failed
        /\ LET held == engagement_data' \o db_session'.new_rows
               mine == SelectSeq(held,
                            LAMBDA r : /\ r.file_id = NewFileId
                                       /\ r.row_number = idx + 2)
           IN  /\ Len(mine) = 1
               /\ mine[1].submission_date = None
               /\ mine[1].data_fields.submission_date = OtherText]_vars

(***************************************************************************)
(* What the properties read of the requests on the uploads.                *)
(***************************************************************************)
\* the request being answered is one of that operation
Answering(op) == call # None /\ call.op = op

\* the audit entries of one action on one record
EntriesOf(log, action, record_id) ==
    SelectSeq(log, LAMBDA e : e.action = action /\ e.record_id = record_id)

(***************************************************************************)
(* C12.  A delete_upload that answers 200 was made on an existing upload;  *)
(* it removes the upload's row and every EngagementData row of the         *)
(* upload, leaves the rows of the other uploads as they were, and appends  *)
(* exactly one FILE_DELETED audit entry of that upload; and, whatever      *)
(* requests are answered one after another, the audit log never holds      *)
(* more than one FILE_DELETED entry of one upload.                         *)
(***************************************************************************)
C12_DeleteCascades ==
    [][/\ (Answering("delete_upload") /\ reply'.code = 200)
            => /\ call.file_id \in DOMAIN uploaded_files
               /\ call.file_id \notin DOMAIN uploaded_files'
               /\ \A f \in DOMAIN uploaded_files \ {call.file_id} :
                    /\ f \in DOMAIN uploaded_files'
                    /\ uploaded_files'[f] = uploaded_files[f]
               /\ engagement_data' =
                    SelectSeq(engagement_data,
                              LAMBDA r : r.file_id # call.file_id)
               /\ Len(audit_log') = Len(audit_log) + 1
               /\ SubSeq(audit_log', 1, Len(audit_log)) = audit_log
               /\ audit_log'[Len(audit_log')].action = "FILE_DELETED"
               /\ audit_log'[Len(audit_log')].record_id = call.file_id
       /\ \A f \in FileIds :
            Len(EntriesOf(audit_log', "FILE_DELETED", f)) <= 1]_vars

C12_Witness ==
    /\ reply = [code |-> 200, message |-> "File deleted successfully"]
    /\ processing_result # None
    /\ processing_result.rows_processed = BATCH_SIZE
    /\ NewFileId \notin DOMAIN uploaded_files
    /\ RecordsOf(NewFileId) = <<>>
    /\ Len(RecordsOf(EarlierFileId)) = 1
    /\ Len(EntriesOf(audit_log, "FILE_DELETED", NewFileId)) = 1

(***************************************************************************)
(* C13.  The role guard authorizes a caller exactly when the caller's      *)
(* role, read as public when the token carries no role claim, is in the    *)
(* allowed set.  A delete_upload of a caller whose role is not admin or    *)
(* executive is answered 403 with the required roles and the caller's      *)
(* role, and changes no upload, no EngagementData row, no audit entry and  *)
(* no stored file; a delete_upload of an admin or an executive is never    *)
(* answered by the guard.                                                  *)
(***************************************************************************)
RoleOf(claims) == IF "role" \in DOMAIN claims THEN claims.role ELSE "public"

C13_RoleGuard ==
    [][/\ \A allowed \in SUBSET UserRole : \A claims \in Tokens :
            Authorized(allowed, claims) <=> RoleOf(claims) \in allowed
       /\ Answering("delete_upload") =>
            IF RoleOf(call.jwt) \in {"admin", "executive"}
                THEN reply'.code # 403
                ELSE /\ reply' = [code |-> 403,
                                  error |-> "Insufficient permissions",
                                  required_roles |-> {"admin", "executive"},
                                  your_role |-> RoleOf(call.jwt)]
                     /\ UNCHANGED <<uploaded_files, engagement_data,
                                    audit_log, upload_folder>>]_vars

C13_Witness ==
    /\ reply = [code |-> 403, error |-> "Insufficient permissions",
                required_roles |-> {"admin", "executive"},
                your_role |-> "staff"]
    /\ PersistedStatus = "completed"
    /\ NewFileId \in DOMAIN upload_folder
    /\ Len(RecordsOf(NewFileId)) = BATCH_SIZE
    /\ EntriesOf(audit_log, "FILE_DELETED", NewFileId) = <<>>

(***************************************************************************)
(* C16.  get_uploads and get_upload_details show an upload only to a       *)
(* caller whose role is admin or executive or who uploaded it.  For every  *)
(* other caller the total of get_uploads is the number of the caller's     *)
(* own uploads that pass the status filter and every item returned is one  *)
(* of them; for an admin or an executive they are taken of all uploads.    *)
(* get_upload_details of an upload of someone else answers 403 with the    *)
(* error alone, and a response that carries an upload was made for an      *)
(* admin, an executive or the uploader.                                    *)
(***************************************************************************)
Privileged(claims) == RoleOf(claims) \in {"admin", "executive"}

\* the uploads a caller may be shown
Shown(claims) ==
    {f \in DOMAIN uploaded_files :
        Privileged(claims) \/ uploaded_files[f].uploaded_by = claims.identity}

C16_ReadsNarrowedToOwner ==
    [][/\ (Answering("get_uploads") /\ reply'.code = 200) =>
            LET listed == {f \in Shown(call.jwt) :
                            \/ call.status = ""
                            \/ uploaded_files[f].upload_status = call.status}
                items == reply'.uploads
                rest == IF Cardinality(listed) > call.offset
                            THEN Cardinality(listed) - call.offset ELSE 0
            IN  /\ reply'.total = Cardinality(listed)
                /\ Len(items) = IF rest < call.limit THEN rest ELSE call.limit
                /\ \A k \in 1..Len(items) :
                    /\ items[k].file_id \in listed
                    /\ ~Privileged(call.jwt) =>
                            items[k].uploaded_by = call.jwt.identity
                    /\ \A j \in 1..Len(items) :
                            items[j].file_id = items[k].file_id => j = k
       /\ Answering("get_upload_details") =>
            /\ "upload" \in DOMAIN reply' =>
                    reply'.upload.file_id \in Shown(call.jwt)
            /\ (call.file_id \in DOMAIN uploaded_files
                    /\ call.file_id \notin Shown(call.jwt)
                    /\ db_failures' = db_failures)
                => reply' = [code |-> 403, error |-> "Unauthorized access"]]_vars

C16_Witness ==
    /\ DOMAIN uploaded_files = {EarlierFileId, NewFileId}
    /\ PersistedStatus = "completed"
    /\ reply # None
    /\ reply.code = 200
    /\ "uploads" \in DOMAIN reply
    /\ reply.total = 1
    /\ Len(reply.uploads) = 1
    /\ reply.uploads[1].file_id = NewFileId
    /\ reply.uploads[1].uploaded_by = "u1"

(***************************************************************************)
(* C14.  Each accepted upload, each deletion, each user creation, each     *)
(* password change, each successful login and each refused login adds      *)
(* exactly one audit entry, and no step adds more than one.  The code      *)
(* breaks this: a login that is refused (401, 403) writes to the logger    *)
(* only and adds no entry; and an upload or a user whose row is committed  *)
(* has no entry when the separate commit of the entry raises.              *)
(***************************************************************************)
\* the response is one of a login that was judged: accepted or refused
LoginJudged(r) == r.code \in {200, 401, 403}

C14_OneEntryPerEvent ==
    [][/\ Len(audit_log') <= Len(audit_log) + 1
       /\ SubSeq(audit_log', 1, Len(audit_log)) = audit_log
       /\ (Answering("login") /\ LoginJudged(reply'))
            => Len(audit_log') = Len(audit_log) + 1
       /\ DOMAIN users' # DOMAIN users
            => /\ Len(audit_log') = Len(audit_log) + 1
               /\ audit_log'[Len(audit_log')].action = "USER_CREATED"
       /\ (\E u \in DOMAIN users :
                users'[u].password_hash # users[u].password_hash)
            => /\ Len(audit_log') = Len(audit_log) + 1
               /\ audit_log'[Len(audit_log')].action = "PASSWORD_CHANGED"
       /\ (\E f \in DOMAIN uploaded_files : f \notin DOMAIN uploaded_files')
            => /\ Len(audit_log') = Len(audit_log) + 1
               /\ audit_log'[Len(audit_log')].action = "FILE_DELETED"
       /\ (NewFileId \in DOMAIN uploaded_files' /\ pc' # "log_upload")
            => Len(EntriesOf(audit_log', "FILE_UPLOADED", NewFileId)) = 1]_vars

(***************************************************************************)
(* C15.  A fault in the commit that writes an audit entry does not fail    *)
(* the operation or undo its change: after a fault in the commit of the    *)
(* FILE_UPLOADED entry upload_file goes on to set the upload processing;   *)
(* after a fault in the commit of a delete_upload the upload and its rows  *)
(* are deleted all the same; after a fault in the commit of a              *)
(* change_password the new hash is stored all the same.  The code breaks   *)
(* each part: upload_file returns 500 and leaves the upload pending, and   *)
(* delete_upload and change_password write the entry and the change in     *)
(* one commit, whose fault rolls both back.                                *)
(***************************************************************************)
C15_AuditFailureSwallowed ==
    [][/\ (pc = "log_upload" /\ db_failures' > db_failures)
            => /\ pc' = "set_processing"
               /\ response' = 0
       /\ (/\ Answering("delete_upload")
           /\ RoleOf(call.jwt) \in {"admin", "executive"}
           /\ call.file_id \in DOMAIN uploaded_files
           /\ db_failures' > db_failures)
            => /\ call.file_id \notin DOMAIN uploaded_files'
               /\ \A k \in 1..Len(engagement_data') :
                    engagement_data'[k].file_id # call.file_id
       /\ (/\ Answering("change_password")
           /\ call.new_password # ""
           /\ call.jwt.identity \in DOMAIN users
           /\ users[call.jwt.identity].password_hash =
                    [hash_of |-> call.old_password]
           /\ db_failures' > db_failures)
            => users'[call.jwt.identity].password_hash =
                    [hash_of |-> call.new_password]]_vars

(***************************************************************************)
(* C17.  An upload whose file name has no extension, or an extension that  *)
(* is none of xlsx, xls, csv, tsv in either case of letters, is answered   *)
(* 400 and stores nothing at any time: no UploadedFile row, no audit       *)
(* entry, no stored file, no EngagementData row, and nothing staged in     *)
(* the session; validate_file and process_file are never called for it.    *)
(***************************************************************************)
AllowList == {"xlsx", "xls", "csv", "tsv"}

OutsideAllowList(filename) ==
    \/ ~filename.dot
    \/ lower(filename.ext) \notin AllowList

C17_BadExtensionStoresNothing ==
    (request.has_file /\ OutsideAllowList(request.filename))
        => /\ uploaded_files = <<>>
           /\ audit_log = <<>>
           /\ upload_folder = <<>>
           /\ engagement_data = <<>>
           /\ db_session = EmptySession
           /\ calls = <<>>
           /\ pc \in {"start", "done"}
           /\ pc = "done" => response = 400

C17_Witness ==
    /\ pc = "done"
    /\ response = 400
    /\ request.has_file
    /\ request.filename = [stem |-> "data", dot |-> TRUE, ext |-> "exe"]
    /\ request.content.readable
    /\ request.content.rows = 1
    /\ request.content.columns = MinimumHeaders
    /\ uploaded_files = <<>>
    /\ upload_folder = <<>>

(***************************************************************************)
(* C18.  A fault in a commit of process_file, the one after every 100th    *)
(* staged row or the final one, ends the processing: the step in which     *)
(* the commit raises leaves the loop for upload_file's handler with        *)
(* nothing staged, and once a batch commit has raised no later row is      *)
(* staged or persisted, process_file returns no result, and the finished   *)
(* upload is failed.  The loop breaks this: the commit of line 86 is       *)
(* inside the row's try, so its exception is counted as a row failure and  *)
(* the loop goes on to stage, and commit, the rows that follow.            *)
(***************************************************************************)
\* a commit inside the loop has raised
BatchCommitRaised ==
    \E k \in 1..Len(error_details) : error_details[k].cause = CommitError

\* the source line of the last row whose batch commit raised
LastRaisedLine ==
    LET k == CHOOSE j \in 1..Len(error_details) :
                /\ error_details[j].cause = CommitError
                /\ \A i \in (j + 1)..Len(error_details) :
                        error_details[i].cause # CommitError
    IN  error_details[k].row

C18_BatchCommitFailureIsFatal ==
    [][/\ (pc \in {"process_rows", "final_commit"}
                /\ db_failures' > db_failures)
            => /\ pc' = "handle_error"
               /\ processing_result' = None
               /\ db_session'.new_rows = <<>>
       /\ BatchCommitRaised' =>
            /\ pc' \in {"handle_error", "done"}
            /\ processing_result' = None
            /\ \A k \in 1..Len(db_session'.new_rows) :
                    db_session'.new_rows[k].row_number <= LastRaisedLine'
            /\ \A k \in 1..Len(engagement_data') :
                    engagement_data'[k].file_id = NewFileId
                        => engagement_data'[k].row_number < LastRaisedLine'
            /\ pc' = "done" => StatusIn(uploaded_files') = "failed"]_vars

(***************************************************************************)
(* C19.  In the loop a commit is issued in exactly the turns in which a    *)
(* row is staged and rows_processed reaches a multiple of 100; every       *)
(* other turn that stages a row adds it behind the rows already staged,    *)
(* and a turn whose row raises stages and commits nothing.  After the      *)
(* last row one more commit leaves nothing staged.  So never more than     *)
(* 100 rows are staged and uncommitted; a commit appends the staged rows   *)
(* in their order behind the persisted ones, so that once the loop is      *)
(* left the persisted rows of the upload and the staged rows behind them   *)
(* are in the order of their source lines; and when process_file has       *)
(* returned nothing is left staged.                                        *)
(***************************************************************************)
\* the rows that are persisted, then those that are staged
HeldRows == engagement_data \o db_session.new_rows

\* the rows of the upload follow one another by their source lines
InSourceOrder(rows) ==
    \A k \in 1..(Len(rows) - 1) :
        (rows[k].file_id = NewFileId /\ rows[k + 1].file_id = NewFileId)
            => rows[k].row_number < rows[k + 1].row_number

C19_BatchCommits ==
    [][/\ (pc = "process_rows" /\ rows_processed' = rows_processed + 1)
            => IF rows_processed' % 100 = 0
                THEN /\ db_session'.new_rows = <<>>
                     /\ \/ engagement_data' =
                                engagement_data \o
                                    Append(db_session.new_rows,
                                           EngagementRecord(NewFileId, idx,
                                                            df))
                        \/ /\ engagement_data' = engagement_data
                           /\ db_failures' = db_failures + 1
                ELSE /\ db_session'.new_rows =
                            Append(db_session.new_rows,
                                   EngagementRecord(NewFileId, idx, df))
                     /\ engagement_data' = engagement_data
                     /\ db_failures' = db_failures
       /\ (pc = "process_rows" /\ rows_processed' = rows_processed)
            => /\ db_session' = db_session
               /\ engagement_data' = engagement_data
       /\ pc = "final_commit" =>
            /\ db_session'.new_rows = <<>>
            /\ \/ engagement_data' = engagement_data \o db_session.new_rows
               \/ /\ engagement_data' = engagement_data
                  /\ db_failures' = db_failures + 1
       /\ Len(db_session'.new_rows) <= 100
       /\ pc' # "process_rows" => InSourceOrder(HeldRows')
       /\ processing_result' # None => db_session'.new_rows = <<>>]_vars

C19_Witness ==
    /\ pc = "final_commit"
    /\ rows_failed = 0
    /\ Len(RecordsOf(NewFileId)) = MaxBatches * BATCH_SIZE
    /\ Len(db_session.new_rows) = 1
    /\ db_session.new_rows[1].row_number = MaxBatches * BATCH_SIZE + 2

(***************************************************************************)
(* C20.  The result of validate_file is that of the first check that       *)
(* fails, in the order emptiness, headers, content, row count: a file      *)
(* that cannot be read or has no row or no column is reported empty        *)
(* whatever else is wrong with it; otherwise a file that lacks a required  *)
(* header is reported the missing headers, also when it has missing cells  *)
(* or more than 10,000 rows; otherwise a file with a missing required      *)
(* cell or a date column that cannot be converted is reported its content  *)
(* errors, also when it has more than 10,000 rows; otherwise a file of     *)
(* more than 10,000 rows is reported too long; and the result is valid     *)
(* exactly when none of the four checks fails.                             *)
(***************************************************************************)
FailsEmptiness(c) == ~c.readable \/ c.rows = 0 \/ c.columns = {}

FailsHeaders(c, t) ==
    \E h \in (IF t = None THEN MinimumHeaders ELSE t.headers) :
        h \notin c.columns

FailsContent(c) ==
    \/ \E h \in MinimumHeaders : h \in c.columns /\ h \in c.missing
    \/ "submission_date" \in c.columns /\ c.date_raises

FailsRowCount(c) == c.rows > 10000

C20_FirstFailingCheck ==
    (Validated /\ request.has_file)
        => LET c == request.content
               t == TemplateUsed
               result == validation_result
           IN  /\ IF FailsEmptiness(c)
                    THEN result = [valid |-> FALSE,
                                   error |-> [text |->
                                    "File is empty or could not be read"]]
                  ELSE IF FailsHeaders(c, t)
                    THEN /\ ~result.valid
                         /\ result.error.text = "Missing required headers"
                  ELSE IF FailsContent(c)
                    THEN /\ ~result.valid
                         /\ result.error.text = "Content validation failed"
                  ELSE IF FailsRowCount(c)
                    THEN /\ ~result.valid
                         /\ result.error.text = "File contains too many rows"
                  ELSE result = [valid |-> TRUE, rows |-> c.rows,
                                 columns |-> c.columns]
               /\ result.valid <=>
                    ~(\/ FailsEmptiness(c)
                      \/ FailsHeaders(c, t)
                      \/ FailsContent(c)
                      \/ FailsRowCount(c))

C20_Witness ==
    /\ Validated
    /\ request.has_file
    /\ request.content.readable
    /\ request.content.rows = 10001
    /\ request.content.columns = {"submission_date", "department"}
    /\ request.content.missing = {"department"}
    /\ request.template_id = ""
    /\ validation_result =
            [valid |-> FALSE,
             error |-> [text |-> "Missing required headers",
                        names |-> {"category"}]]

(***************************************************************************)
(* C21.  As claimed: an upload whose file holds a missing cell in a        *)
(* submission_date, department or category column fails validation with    *)
(* the content failure, ends rejected and gets no EngagementData row; and  *)
(* every EngagementData row of an upload validated without a template has  *)
(* a department and a category.  A file that also lacks a required header  *)
(* refutes the first part: it is reported the missing headers; and a       *)
(* fault in the commit of "rejected" refutes the second.                   *)
(***************************************************************************)
\* the file holds a missing cell in one of the validator's columns
HoldsMissingCell(c) ==
    /\ c.readable
    /\ \E h \in {"submission_date", "department", "category"} :
            h \in c.columns /\ h \in c.missing

\* the rows of the upload, persisted or staged, have the two core fields
CoreFieldsSet ==
    \A k \in 1..Len(HeldRows) :
        HeldRows[k].file_id = NewFileId
            => /\ HeldRows[k].department # None
               /\ HeldRows[k].category # None

C21_MissingCellIsInvalidContent ==
    /\ (request.has_file /\ HoldsMissingCell(request.content) /\ Validated)
        => /\ ~validation_result.valid
           /\ validation_result.error.text = "Content validation failed"
           /\ pc = "done" => PersistedStatus = "rejected"
           /\ RecordsOf(NewFileId) = <<>>
    /\ (request.has_file /\ TemplateUsed = None) => CoreFieldsSet

(***************************************************************************)
(* C21, amended.  An upload whose file holds a missing cell in a           *)
(* submission_date, department or category column never passes             *)
(* validation, with or without a template: process_file is not called and  *)
(* no EngagementData row of it is staged or persisted.  The failure is     *)
(* the content failure, naming every such column, when the file has all    *)
(* the required headers, and the missing headers otherwise.  The upload    *)
(* ends rejected when the commit of that status succeeds, and failed or    *)
(* left in processing otherwise.  And every EngagementData row, staged or  *)
(* persisted, of an upload validated without a template has a department   *)
(* and a category.                                                         *)
(***************************************************************************)
C21_MissingCellNeverProcessed ==
    /\ (request.has_file /\ HoldsMissingCell(request.content))
        => LET c == request.content
           IN  /\ ~Called("process_file")
               /\ RecordsOf(NewFileId) = <<>>
               /\ db_session.new_rows = <<>>
               /\ Validated =>
                    /\ ~validation_result.valid
                    /\ IF FailsHeaders(c, TemplateUsed)
                        THEN validation_result.error.text
                                = "Missing required headers"
                        ELSE /\ validation_result.error.text
                                    = "Content validation failed"
                             /\ \A h \in c.missing \cap c.columns :
                                    <<h, "missing values">>
                                        \in validation_result.error.errors
                    /\ pc = "done" =>
                        IF exc = None THEN PersistedStatus = "rejected"
                        ELSE PersistedStatus \in {"failed", "processing"}
    /\ (request.has_file /\ TemplateUsed = None) => CoreFieldsSet

C21_Witness ==
    /\ pc = "done"
    /\ request.has_file
    /\ request.template_id = "T1"
    /\ request.content.readable
    /\ request.content.columns = {"department", "notes", "category"}
    /\ request.content.missing = {"category"}
    /\ PersistedStatus = "rejected"
    /\ uploaded_files[NewFileId].error_message =
            [text |-> "Content validation failed",
             errors |-> {<<"category", "missing values">>}]
    /\ RecordsOf(NewFileId) = <<>>

(***************************************************************************)
(* C22.  The operations that write, with the roles their guard allows:     *)
(* delete_upload admin and executive, register_user admin; upload_file     *)
(* and change_password carry no role guard and are open to every           *)
(* authenticated caller.  A request of a caller whose role is not allowed  *)
(* is answered 403 with the required roles and the caller's role in one    *)
(* step that changes no table, no stored file and no audit entry and       *)
(* stages nothing; so the guard has answered before the operation writes   *)
(* anything.  A step of delete_upload or register_user that changes a      *)
(* table was made for a caller whose role is allowed, and upload_file and  *)
(* change_password are never answered by the guard.                        *)
(***************************************************************************)
\* the roles the guard of an operation allows
AllowedRoles(op) ==
    CASE op = "delete_upload" -> {"admin", "executive"}
      [] op = "register_user" -> {"admin"}
      [] OTHER -> {"executive", "staff", "public", "admin"}

\* what the operations write to
Storage ==
    <<uploaded_files, engagement_data, audit_log, upload_folder, users,
      db_session>>

Guarded(c) == c # None /\ c.op \in {"delete_upload", "register_user"}

C23_FailedCommitUndone ==
    [][db_failures' > db_failures
        => /\ uploaded_files' = uploaded_files
           /\ engagement_data' = engagement_data
           /\ audit_log' = audit_log
           /\ db_session' = EmptySession
           /\ Answering("change_password") => users' = users
           /\ Answering("delete_upload") => upload_folder' = upload_folder]_vars

(***************************************************************************)
(* C24.  The audit log only grows: whatever operation takes a step, the    *)
(* entries the log held before the step are in it after the step, each     *)
(* unchanged and at its place, and the new entries come behind them.       *)
(* The entries of an upload outlive the deletion of the upload.            *)
(***************************************************************************)
C24_AuditAppendOnly ==
    [][/\ Len(audit_log) <= Len(audit_log')
       /\ \A k \in 1..Len(audit_log) : audit_log'[k] = audit_log[k]]_vars

C24_Witness ==
    /\ NewFileId \notin DOMAIN uploaded_files
    /\ Len(EntriesOf(audit_log, "FILE_UPLOADED", NewFileId)) = 1
    /\ Len(EntriesOf(audit_log, "FILE_DELETED", NewFileId)) = 1
    /\ audit_log[1] = [action |-> "FILE_UPLOADED",
                       record_id |-> EarlierFileId, user_id |-> "u2"]
    /\ audit_log[Len(audit_log)].action = "PASSWORD_CHANGED"

(***************************************************************************)
(* C25.  Wherever a delete_upload of the upload falls between the steps    *)
(* of the upload_file that is still handling it, every persisted           *)
(* EngagementData row belongs to an upload whose row is stored, and once   *)
(* the deletion is committed, which its FILE_DELETED entry shows, no       *)
(* EngagementData row of the upload is persisted: the commits of the       *)
(* processor that follow are refused by the foreign key of                 *)
(* EngagementData.file_id.                                                 *)
(***************************************************************************)
\* the deletion of the upload has been committed
DeleteCommitted == EntriesOf(audit_log, "FILE_DELETED", NewFileId) # <<>>

C25_NoOrphanRecords ==
    /\ \A k \in 1..Len(engagement_data) :
            engagement_data[k].file_id \in DOMAIN uploaded_files
    /\ DeleteCommitted =>
            /\ NewFileId \notin DOMAIN uploaded_files
            /\ RecordsOf(NewFileId) = <<>>

C25_Witness ==
    /\ DeleteCommitted
    /\ pc = "process_rows"
    /\ idx = BATCH_SIZE
    /\ rows_processed = BATCH_SIZE
    /\ db_failures = 0
    /\ error_details = <<RowError(BATCH_SIZE - 1, CommitError)>>
    /\ db_session.new_rows = <<>>
    /\ engagement_data = <<>>

(***************************************************************************)
(* C26.  Two uploads handled at once by different callers do not           *)
(* interfere.  A step of the running upload leaves alone everything of     *)
(* the other upload: its row, its EngagementData rows, its stored file,    *)
(* its audit entries, and what its thread holds, the rows it has staged    *)
(* included, so that no commit or rollback of one upload commits or        *)
(* discards rows staged by the other.  A switch of threads changes no      *)
(* table and resumes the other thread with exactly what it held.  And a    *)
(* finished upload ends as that upload ends when handled alone: if it is   *)
(* stored at all its records are lines of its own file, each once; a file  *)
(* that fails validation has no records and no counters and is never       *)
(* completed; counters that were written count every row of the file and   *)
(* at least the records persisted; and for a file shorter than one batch   *)
(* the persisted lines are all the staged ones or none, with               *)
(* rows_processed, where written, the number of records and rows_failed    *)
(* the rest of the file.                                                   *)
(***************************************************************************)
\* what the tables, the log and the upload folder hold of one upload
HeldOf(f) ==
    [row |-> IF f \in DOMAIN uploaded_files THEN uploaded_files[f] ELSE None,
     records |-> RecordsOf(f),
     stored |-> IF f \in DOMAIN upload_folder THEN upload_folder[f] ELSE None,
     log |-> SelectSeq(audit_log, LAMBDA e : e.record_id = f)]

\* how an upload of request r, handled alone, can have ended
EndsAsAlone(r) ==
    LET f == FileIdOf(r)
        n == r.content.rows
        lines == RowNumbers(RecordsOf(f))
        invalid == \/ FailsEmptiness(r.content)
                   \/ FailsHeaders(r.content, None)
                   \/ FailsContent(r.content)
                   \/ FailsRowCount(r.content)
    IN  IF f \notin DOMAIN uploaded_files THEN RecordsOf(f) = <<>>
        ELSE LET row == uploaded_files[f]
                 written == row.rows_processed + row.rows_failed > 0
             IN  /\ Len(RecordsOf(f)) = Cardinality(lines)
                 /\ lines \subseteq 2..(n + 1)
                 /\ row.upload_status = "pending" => lines = {} /\ ~written
                 /\ row.upload_status = "rejected" => invalid
                 /\ row.upload_status = "completed" => written
                 /\ invalid =>
                        /\ lines = {}
                        /\ ~written
                        /\ row.upload_status # "completed"
                 /\ written =>
                        /\ row.rows_processed + row.rows_failed >= n
                        /\ Cardinality(lines) <= row.rows_processed
                 /\ n < BATCH_SIZE =>
                        /\ lines # {} =>
                              \A i \in 0..(n - 1) :
                                 (i + 2) \notin lines
                                    => "raises" \in RowOutcomes(i)
                        /\ written =>
                              /\ row.rows_processed = Cardinality(lines)
                              /\ row.rows_failed = n - row.rows_processed

C26_UploadsDoNotInterfere ==
    [][parked # None =>
        /\ parked' = parked =>
              HeldOf(FileIdOf(parked.request))'
                  = HeldOf(FileIdOf(parked.request))
        /\ parked' # parked =>
              /\ Running' = parked
              /\ parked' = Running
              /\ UNCHANGED <<uploaded_files, engagement_data, audit_log,
                             upload_folder>>
        /\ pc' = "done" => EndsAsAlone(request)'
        /\ parked'.pc = "done" => EndsAsAlone(parked.request)']_vars

\* both uploads are completed, the second one's row staged and committed
\* between two batches of the first
C26_Witness ==
    /\ parked # None
    /\ pc = "done"
    /\ parked.pc = "done"
    /\ response = 200
    /\ parked.response = 200
    /\ request.content.rows = BATCH_SIZE + 1
    /\ Len(RecordsOf(1)) = BATCH_SIZE + 1
    /\ Len(RecordsOf(2)) = 1
    /\ engagement_data[BATCH_SIZE + 1].file_id = 2
    /\ uploaded_files[1].upload_status = "completed"
    /\ uploaded_files[2].upload_status = "completed"

(***************************************************************************)
(* C27.  For every upload in a terminal status, the rows_processed         *)
(* counter stored on its row equals the number of EngagementData rows      *)
(* persisted for it, also when the upload ended failed after batches were  *)
(* committed or when a batch commit failed.                                *)
(***************************************************************************)
C27_CounterMatchesRecords ==
    (Accepted /\ PersistedStatus \in Terminal)
        => uploaded_files[NewFileId].rows_processed
                = Len(RecordsOf(NewFileId))

(***************************************************************************)
(* C28.  An upload whose template id matches no active template, because   *)
(* the id is unknown or the template is inactive, is not refused for       *)
(* that: unless the lookup itself meets a storage fault, validate_file is  *)
(* called and its result is the one it gives when no template is passed,   *)
(* with the header check made against the minimum header set               *)
(* {submission_date, department, category}.                                *)
(***************************************************************************)
\* the request names a template and no active template has that id
Unmatched ==
    /\ request.has_file
    /\ request.template_id # ""
    /\ \A id \in DOMAIN upload_templates :
            id = request.template_id => ~upload_templates[id].is_active

C28_UnmatchedTemplateIsNoTemplate ==
    [][(pc = "validate" /\ Unmatched /\ pc' # pc) =>
        IF db_failures' # db_failures
            THEN exc' = QueryError /\ validation_result' = None
            ELSE LET c == request.content
                     result == validation_result'
                 IN  /\ pc' = "validated"
                     /\ calls' = Append(calls, "validate_file")
                     /\ result = validate_file(upload_folder, NewFileId,
                                               file_extension, None)
                     /\ result.valid <=>
                            ~ \/ FailsEmptiness(c)
                              \/ FailsHeaders(c, None)
                              \/ FailsContent(c)
                              \/ FailsRowCount(c)
                     /\ (~FailsEmptiness(c) /\ FailsHeaders(c, None)) =>
                            result.error =
                                [text |-> "Missing required headers",
                                 names |-> MinimumHeaders \ c.columns]]_vars

\* a file that holds every header of the inactive template T2 and lacks
\* two of the minimum set was validated under T2's id
C28_Witness ==
    /\ request.has_file
    /\ request.template_id = "T2"
    /\ request.content.readable
    /\ request.content.columns = {"department"}
    /\ upload_templates["T2"].headers \subseteq request.content.columns
    /\ Validated
    /\ ~validation_result.valid
    /\ validation_result.error =
            [text |-> "Missing required headers",
             names |-> {"submission_date", "category"}]

(***************************************************************************)
(* C29.  validate_file never raises.  Unless the template lookup before    *)
(* it meets a storage fault, the step that calls it ends with a result     *)
(* and no exception, and for a file that cannot be read, or that makes a   *)
(* validation step raise, the result is an invalid one.  Such a file is    *)
(* never handed to process_file and has no record; its upload ends         *)
(* rejected, answered 400, when no fault outside validate_file is met,     *)
(* and it is failed only after the template lookup or a status commit      *)
(* raised.  Whatever the file, an upload is failed only after an           *)
(* exception raised outside validate_file: by the template lookup, by      *)
(* process_file, by a commit, or by the refresh of the row for the         *)
(* response.                                                               *)
(***************************************************************************)
\* the file cannot be read, or makes a step of validate_file raise
FaultsInValidation ==
    /\ request.has_file
    /\ \/ ~request.content.readable
       \/ request.content.date_raises
       \/ request.content.duplicated \cap request.content.columns # {}

\* the exceptions raised outside validate_file
OutsideFaults ==
    {QueryError, CommitError, RefreshError, ObjectDeletedError,
     [text |-> "Failed to read file"]}

C30_BookkeepingAgreesWithStatus ==
    Accepted =>
        LET row == uploaded_files[NewFileId]
        IN  /\ row.error_message # None
                <=> row.upload_status \in {"rejected", "failed"}
            /\ row.processed_at # None <=> row.upload_status = "completed"
            /\ row.validation_notes # None
                <=> row.upload_status = "completed"
            /\ (row.rows_processed # 0 \/ row.rows_failed # 0)
                => row.upload_status = "completed"

====
